---------------------------- MODULE Spec2Model ----------------------------
(***************************************************************************)
(* EthCal: the calendar services and the stignite framework under them.    *)
(*                                                                         *)
(*   MonthGridService  (services/monthGrid)   : cursor, generate, up/down  *)
(*   DayInfoService    (services/dayInfoService): holidays + fasting       *)
(*   StateManager      (stignite)             : ReactiveState, batchUpdate *)
(*   ComponentBase     (stignite)             : timers, settings, destroy  *)
(*   EffectManager     (stignite)             : effects, timers, signals,  *)
(*                                              onStateChange              *)
(*   DateFormatterService (services/dateFormatter) : tokens, validation    *)
(*   UpdateOrchestrator (stignite)            : registry, update queue     *)
(*   ExtensionBase     (stignite)             : setSetting, monitor,       *)
(*                                              destroy                    *)
(*   ComponentBase events (stignite)          : emit, connect, disconnect  *)
(*   CalendarGrid      (components)           : render, refresh, destroy   *)
(*                                                                         *)
(* Each has its own specification (GridSpec, GridFailSpec, DayInfoSpec,    *)
(* PeriodSpec, ReactiveSpec, ComponentSpec, EffectSpec, FormatSpec,        *)
(* OrchestratorSpec, ExtensionSpec, EventSpec, CalendarSpec).  An          *)
(* operation that reaches into another object changes that object's        *)
(* variable too: destroy() of a component unregisters it from the          *)
(* orchestrator and disconnects its listeners, an effect made by           *)
(* onStateChange unsubscribes from its reactive state.                     *)
(*                                                                         *)
(* The Ethiopian calendar library (kenat) is not part of the repository;   *)
(* the operators of the section "calendar library" model the contract the  *)
(* services consume from it.                                               *)
(***************************************************************************)
EXTENDS Integers, Sequences, FiniteSets, TLC

VARIABLES
    inst,       \* <<>> before construction, <<s>> for a MonthGridService s
    result,     \* <<>> or <<r>>: the MonthGridResult the caller holds
    lastOp,     \* the last operation on the MonthGridService or its clock;
                \* <<"generate", b>>: b says whether it followed a reset
    ticks,      \* days elapsed on the host clock since the start date
    language,   \* DayInfoService.language
    dayIn,      \* <<>> or <<i>>: the date the DayInfoService is asked about
                \* and what the library's lookups do for it
    dayOut,     \* <<>> or <<o>>: what the last DayInfoService call returned
    calcOut,    \* <<>> or <<c>>: the last call of one of DayInfoService's
                \* day-count helpers, with its arguments and its value
    holidayTable, \* "ok" or "throws": what the library's getHolidaysInMonth
                \* does when MonthGridService calls it in this run
    rx,         \* a StateManager with its ReactiveStates, and the callback
                \* invocations of the last operation on it
    comp,       \* a component (ComponentBase) with the host's event loop
                \* and the GSettings object it is connected to
    fx,         \* an EffectManager with the host's event loop and the
                \* object whose signals it connects to
    fmt,        \* a format string given to a DateFormatterService, and what
                \* the last call on it returned
    orch,       \* the UpdateOrchestrator with the components registered on it
    ext,        \* an ExtensionBase with the Gio.Settings it writes to
    bus,        \* the event listeners of a component
    grid        \* what a CalendarGrid has attached to its grid layout

gridVars == <<inst, result, lastOp, ticks>>
dayVars == <<language, dayIn, dayOut>>
calcVars == <<calcOut>>
libVars == <<holidayTable>>
uiVars == <<rx, comp, fx>>
extVars == <<fmt, orch, ext, bus, grid>>
\* What the operations of one service leave alone.
offGrid == <<dayVars, calcVars, libVars, uiVars, extVars>>
offDay == <<gridVars, calcVars, libVars, uiVars, extVars>>
offReactive == <<gridVars, dayVars, calcVars, libVars, comp, fx, extVars>>
offComponent == <<gridVars, dayVars, calcVars, libVars, rx, fx, extVars>>
offEffects == <<gridVars, dayVars, calcVars, libVars, rx, comp, extVars>>
offFormat ==
    <<gridVars, dayVars, calcVars, libVars, uiVars, orch, ext, bus, grid>>
offOrchestrator ==
    <<gridVars, dayVars, calcVars, libVars, uiVars, fmt, ext, bus, grid>>
offExtension ==
    <<gridVars, dayVars, calcVars, libVars, uiVars, fmt, bus, grid>>
offEvents ==
    <<gridVars, dayVars, calcVars, libVars, uiVars, fmt, orch, ext, grid>>
offCalendar ==
    <<dayVars, calcVars, libVars, uiVars, fmt, orch, ext, bus>>
vars == <<inst, result, lastOp, ticks, language, dayIn, dayOut, calcOut,
          holidayTable, rx, comp, fx, fmt, orch, ext, bus, grid>>

----------------------------------------------------------------------------
(* Bounds of the model.                                                    *)

\* First Ethiopian year of the navigation window (2015 is a leap year).
BaseYear == 2015
\* The caller navigates within the last two months of BaseYear and the
\* 2 * NavSpan - 1 months after them (with NavSpan >= 7 every month 1..13
\* is visited, and Pagume both of BaseYear, which has 6 days, and of
\* BaseYear + 1, which has 5).
NavSpan == 7
\* The host clock advances at most this many days.
MaxTicks == 1

Years == BaseYear..(BaseYear + 1)
Months == 1..13

----------------------------------------------------------------------------
(* JavaScript helpers.                                                     *)

\* An optional value: <<>> is undefined / null, <<v>> is the value v.
Undefined == <<>>
Some(v) == <<v>>
\* a ?? b
Coalesce(o, d) == IF o = Undefined THEN d ELSE o[1]

\* JavaScript's % : the remainder takes the sign of the dividend.
JsMod(a, b) == IF a >= 0 THEN a % b ELSE -((-a) % b)

\* new Date(y, m - 1, d).getDay(): the weekday of a Gregorian civil date,
\* 0 = Sunday .. 6 = Saturday (days since 1970-01-01, a Thursday).
JsGetDay(gy, gm, gd) ==
    LET y == IF gm <= 2 THEN gy - 1 ELSE gy
        era == y \div 400
        yoe == y - era * 400
        mp == (gm + 9) % 12
        doy == (153 * mp + 2) \div 5 + gd - 1
        doe == yoe * 365 + yoe \div 4 - yoe \div 100 + doy
        days == era * 146097 + doe - 719468
    IN (days + 4) % 7

----------------------------------------------------------------------------
(* Calendar library (kenat).                                               *)

\* Ethiopian leap year: the year before a Gregorian leap year.
IsEthLeap(y) == y % 4 = 3

\* Days of an Ethiopian month: 30, Pagume 5 or 6.
DaysInMonth(y, m) == IF m <= 12 THEN 30 ELSE IF IsEthLeap(y) THEN 6 ELSE 5

\* Julian day number of an Ethiopian date (Amete Mihret era).
EthToJdn(y, m, d) ==
    1723856 + 365 + 365 * (y - 1) + (y \div 4) + 30 * m + d - 31

\* Gregorian civil date of a Julian day number.
JdnToGregorian(j) ==
    LET f == j + 1401 + (((4 * j + 274277) \div 146097) * 3) \div 4 - 38
        e == 4 * f + 3
        g == (e % 1461) \div 4
        h == 5 * g + 2
        dd == (h % 153) \div 5 + 1
        mm == ((h \div 153 + 2) % 12) + 1
        yy == e \div 1461 - 4716 + (12 + 2 - mm) \div 12
    IN [year |-> yy, month |-> mm, day |-> dd]

\* new Kenat("y/m/d").getGregorian()
GetGregorian(eth) == JdnToGregorian(EthToJdn(eth.year, eth.month, eth.day))

\* kenat.getMonthCalendar(year, month, false): one entry per day of the month.
GetMonthCalendar(y, m) ==
    [d \in 1..DaysInMonth(y, m) |->
        [ethiopian |-> [year |-> y, month |-> m, day |-> d],
         gregorian |-> GetGregorian([year |-> y, month |-> m, day |-> d])]]

\* The library's tables over the window, evaluated once.
MonthCalendarTable ==
    [y \in (BaseYear - 1)..(BaseYear + 2) |->
        [m \in Months |-> GetMonthCalendar(y, m)]]

\* The day after an Ethiopian date.
NextDay(e) ==
    IF e.day < DaysInMonth(e.year, e.month)
    THEN [e EXCEPT !.day = e.day + 1]
    ELSE IF e.month < 13
         THEN [year |-> e.year, month |-> e.month + 1, day |-> 1]
         ELSE [year |-> e.year + 1, month |-> 1, day |-> 1]

\* The host clock starts on the last day of Pagume of BaseYear.
StartToday ==
    [year |-> BaseYear, month |-> 13, day |-> DaysInMonth(BaseYear, 13)]

RECURSIVE DaysLater(_, _)
DaysLater(e, n) == IF n = 0 THEN e ELSE DaysLater(NextDay(e), n - 1)

\* Kenat.now().getEthiopian() when the clock has advanced t days.
KenatNow(t) == DaysLater(StartToday, t)

\* toGeez(n): the Geez numeral of n, kept abstract as a tagged value.
ToGeez(n) == <<"geez", n>>

\* monthNames[lang], indexed 0..12 in the library, 1..13 here.
MonthNames(lang) ==
    IF lang = "english"
    THEN <<"Meskerem", "Tikimt", "Hidar", "Tahsas", "Tir", "Yekatit",
           "Megabit", "Miazia", "Ginbot", "Sene", "Hamle", "Nehase",
           "Pagume">>
    ELSE <<"am:Meskerem", "am:Tikimt", "am:Hidar", "am:Tahsas", "am:Tir",
           "am:Yekatit", "am:Megabit", "am:Miazia", "am:Ginbot", "am:Sene",
           "am:Hamle", "am:Nehase", "am:Pagume">>

\* HolidayTags of the library.
HolidayTags ==
    [PUBLIC |-> "public", CHRISTIAN |-> "christian", MUSLIM |-> "muslim"]

\* The library's holiday table: fixed-date holidays (month, day) ...
FixedHolidays ==
    <<[key |-> "enkutatash", month |-> 1, day |-> 1,
       tags |-> <<"public", "cultural">>],
      [key |-> "meskel", month |-> 1, day |-> 17,
       tags |-> <<"public", "religious", "christian">>],
      [key |-> "gena", month |-> 4, day |-> 29,
       tags |-> <<"public", "religious", "christian">>],
      [key |-> "timket", month |-> 5, day |-> 11,
       tags |-> <<"public", "religious", "christian">>],
      [key |-> "adwa", month |-> 6, day |-> 23,
       tags |-> <<"public", "state">>],
      [key |-> "patriots", month |-> 8, day |-> 27,
       tags |-> <<"public", "state">>]>>

\* ... and movable ones, by year (Fasika 2016 falls on Patriots' Day).
MovableHolidays(y) ==
    IF y = 2015
    THEN <<[key |-> "fasika", month |-> 8, day |-> 8,
            tags |-> <<"public", "religious", "christian">>],
           [key |-> "moulid", month |-> 1, day |-> 28,
            tags |-> <<"public", "religious", "muslim">>]>>
    ELSE IF y = 2016
    THEN <<[key |-> "moulid", month |-> 1, day |-> 16,
            tags |-> <<"public", "religious", "muslim">>],
           [key |-> "fasika", month |-> 8, day |-> 27,
            tags |-> <<"public", "religious", "christian">>]>>
    ELSE <<>>

\* Does a tag list share a tag with the filter?
HasAnyTag(tags, filter) ==
    \E i \in 1..Len(tags) : \E j \in 1..Len(filter) : tags[i] = filter[j]

\* One Holiday object of the library, localized to lang.
HolidayOf(e, y, lang) ==
    [key |-> e.key,
     name |-> <<lang, e.key, "name">>,
     description |-> <<lang, e.key, "description">>,
     tags |-> e.tags,
     ethiopian |-> [year |-> y, month |-> e.month, day |-> e.day]]

\* getHolidaysForYear(year, {lang}): every holiday of the year.
GetHolidaysForYear(y, lang) ==
    LET all == FixedHolidays \o MovableHolidays(y)
    IN [i \in 1..Len(all) |-> HolidayOf(all[i], y, lang)]

\* getHolidaysInMonth(year, month, {lang, filter}); filter is <<>> when
\* absent, <<tags>> when given.
GetHolidaysInMonth(y, m, lang, filter) ==
    LET inMonth(h) == h.ethiopian.month = m
        wanted(h) == filter = Undefined \/ HasAnyTag(h.tags, filter[1])
        keep(h) == inMonth(h) /\ wanted(h)
    IN SelectSeq(GetHolidaysForYear(y, lang), keep)

\* kenat.diffInDays(other): whole days from other to this date.
DiffInDays(a, b) ==
    EthToJdn(a.year, a.month, a.day) - EthToJdn(b.year, b.month, b.day)

\* The fasting periods of the library's calculator for one year; the weekly
\* fast TSOME_DIHENET has none.
FastingPeriodOf(key, y) ==
    LET p(sm, sd, em, ed) ==
            Some([start |-> [year |-> y, month |-> sm, day |-> sd],
                  end |-> [year |-> y, month |-> em, day |-> ed]])
    IN CASE key = "ABIY_TSOME" -> p(7, 2, 8, 26)
         [] key = "TSOME_HAWARYAT" -> p(10, 17, 11, 4)
         [] key = "TSOME_NEBIYAT" -> p(3, 15, 4, 28)
         [] key = "NINEVEH" -> p(6, 18, 6, 20)
         [] key = "RAMADAN" -> p(7, 2, 8, 1)
         [] key = "FILSETA" -> p(12, 1, 12, 14)
         [] OTHER -> Undefined

\* What one getFastingInfo(key, year, {lang}) call does: it throws, returns
\* null, or returns the localized info, with or without a period.
FastingOutcomes == {"throws", "null", "noPeriod", "period"}

\* getFastingInfo(key, year, {lang}) when it returns (outcome is not
\* "throws"): <<>> for null, <<info>> otherwise.
GetFastingInfo(key, y, lang, outcome) ==
    IF outcome = "null"
    THEN Undefined
    ELSE Some([name |-> <<lang, key, "name">>,
               description |-> <<lang, key, "description">>,
               period |-> IF outcome = "period"
                          THEN FastingPeriodOf(key, y)
                          ELSE Undefined])

----------------------------------------------------------------------------
(* stignite: the objects as their constructors leave them.                 *)

\* The keys under which the extension creates ReactiveStates.
StateKeys == {"position", "format"}

\* new StateManager(): no state yet; nothing has been called back.
\*   states[k]  : <<>> or <<[value, subscribers]>>, subscribers in the
\*                insertion order of the Set
\*   handles    : the <<key, callback>> pairs whose subscribe call returned
\*                an unsubscribe function
\*   gone       : the pairs unsubscribed and not subscribed again since
\*   calls      : the callback invocations of the last operation, in order
\*   op         : the last operation, with the values it replaced
NewStateManager ==
    [states |-> [k \in StateKeys |-> <<>>],
     handles |-> {},
     gone |-> {},
     calls |-> <<>>,
     op |-> <<"new">>]

\* new Component(settings): nothing to clean up, no reactive setting; the
\* host has no timer source and no handler of this component.
\*   cleanup    : the cleanup functions, in the order they were added
\*   reactiveSettings : the names in the _reactiveSettings map
\*   sources    : the ids of the timer sources alive in the event loop
\*   handlers   : the 'changed::<key>' handlers connected on the settings
\*   nextId     : the next id the host hands out
\*   destroyed  : has destroy() returned?
\*   componentId : the id @ReactiveComponent gave it, "" without one
\*   op         : the last operation or host event
NewComponent ==
    [cleanup |-> <<>>,
     reactiveSettings |-> {},
     sources |-> {},
     handlers |-> {},
     nextId |-> 1,
     destroyed |-> FALSE,
     componentId |-> "",
     op |-> <<"new">>]

\* new EffectManager(): three empty registries; the host has no timer
\* source and no signal connection of this manager.
\*   effects, activeTimers, activeSignals : the Maps, as the sequences of
\*                their entries in insertion order
\*   sources    : the ids of the timer sources alive in the event loop
\*   connections : the ids of the handlers connected on the object
\*   nextId     : the next id the host hands out
\*   events     : what the last operation ran, in order
\*   op         : the last operation or host event
NewEffectManager ==
    [effects |-> <<>>,
     activeTimers |-> <<>>,
     activeSignals |-> <<>>,
     sources |-> {},
     connections |-> {},
     nextId |-> 1,
     events |-> <<>>,
     op |-> <<"new">>]

\* The setting keys components depend on, every one with the default 0.
DependencyKeys == {"position", "format"}

\* UpdateOrchestrator.getInstance() for the first time: nothing registered,
\* nothing queued.
\*   componentRegistry : the Map, as the sequence of its components in
\*                       insertion order; a component is [id, updatePriority,
\*                       dependencies, renders] with the keys of its
\*                       dependencies object and what its render does
\*   dependencyGraph   : for each key the Set of component ids, in insertion
\*                       order (<<>> also for a key not in the Map)
\*   updateQueue, isProcessing : as in the class
\*   renders    : the render calls of the last operation, in order
\*   batches    : the batches processUpdateQueue took in the last operation,
\*                each with the queue it was sorted from
\*   rejected   : was the promise of a processUpdateQueue call of the last
\*                operation rejected?
\*   op         : the last operation
NewOrchestrator ==
    [componentRegistry |-> <<>>,
     dependencyGraph |-> [k \in DependencyKeys |-> <<>>],
     updateQueue |-> <<>>,
     isProcessing |-> FALSE,
     renders |-> <<>>,
     batches |-> <<>>,
     rejected |-> FALSE,
     op |-> <<"new">>]

\* new Extension(metadata, config): the settings hold their defaults and the
\* 'changed' monitor is connected.
\*   settings   : the value stored under each key
\*   schema     : the keys config.settingSchema defines
\*   monitor    : is the 'changed' handler connected?
\*   components : the ids of the components added with addComponent
\*   notified   : the notifySettingChanged calls of the last operation
\*   op         : the last operation
NewExtension ==
    [settings |-> [k \in DependencyKeys |-> 0],
     schema |-> DependencyKeys,
     monitor |-> TRUE,
     components |-> <<>>,
     notified |-> <<>>,
     op |-> <<"new">>]

\* What a CalendarGrid that has not been constructed has attached: nothing.
\* The header labels and the day cells are kept with the row and column
\* they are attached at; constructed tells whether the constructor has
\* returned, layout whether outer and gridLayout are defined.
EmptyGrid ==
    [headers |-> <<>>, days |-> <<>>, layout |-> FALSE, constructed |-> FALSE]

\* The events a component emits.
EventNames == {"day-selected", "closed"}

\* The event side of a new component: no listener, nothing to clean up.
\*   eventListeners : for each event name the array of callbacks (<<>> also
\*                    for a name not in the Map)
\*   cleanup    : the <<eventName, callback>> pairs of the disconnecting
\*                cleanups connect has added
\*   calls      : the listener calls of the last operation, in order
\*   op         : the last operation
NewEventBus ==
    [eventListeners |-> [e \in EventNames |-> <<>>],
     cleanup |-> <<>>,
     calls |-> <<>>,
     op |-> <<"new">>]

\* No format string has been given to a DateFormatterService.
NoFormat == [in |-> <<>>, out |-> <<>>]

\* The stignite objects are as constructed.
StigniteIdle ==
    /\ rx = NewStateManager
    /\ comp = NewComponent
    /\ fx = NewEffectManager

OrchestratorIdle ==
    /\ orch = NewOrchestrator
    /\ ext = NewExtension
    /\ bus = NewEventBus
    /\ grid = EmptyGrid

UiIdle ==
    /\ StigniteIdle
    /\ fmt = NoFormat
    /\ OrchestratorIdle

----------------------------------------------------------------------------
(* MonthGridService.                                                       *)

\* WEEKDAY_LABELS[lang]: Sunday first.
WEEKDAY_LABELS(lang) ==
    IF lang = "english"
    THEN <<"Sunday", "Monday", "Tuesday", "Wednesday", "Thursday", "Friday",
           "Saturday">>
    ELSE <<"Ehud", "Segno", "Maksegno", "Rebu", "Hamus", "Arb", "Kidame">>

\* _validateConfig that checks the lower end of weekStart only.
validateConfigThrows_noUpperBound(config) ==
    \/ (config.year # Undefined /\ config.month = Undefined)
    \/ (config.year = Undefined /\ config.month # Undefined)
    \/ (config.weekStart # Undefined /\ config.weekStart[1] < 0)
    \/ (config.weekdayLang # Undefined
        /\ config.weekdayLang[1] \notin {"amharic", "english"})

\* _validateConfig(config): TRUE when it throws.
validateConfigThrows(config) ==
    \/ (config.year # Undefined /\ config.month = Undefined)
    \/ (config.year = Undefined /\ config.month # Undefined)
    \/ (config.weekStart # Undefined
        /\ (config.weekStart[1] < 0 \/ config.weekStart[1] > 6))
    \/ (config.weekdayLang # Undefined
        /\ config.weekdayLang[1] \notin {"amharic", "english"})

\* The fields the constructor assigns once validation passed.
constructor(config, current) ==
    [year |-> Coalesce(config.year, current.year),
     month |-> Coalesce(config.month, current.month),
     weekStart |-> Coalesce(config.weekStart, 1),
     useGeez |-> Coalesce(config.useGeez, FALSE),
     weekdayLang |-> Coalesce(config.weekdayLang, "amharic"),
     holidayFilter |-> config.holidayFilter,
     mode |-> Coalesce(config.mode, "null"),
     showAllSaints |-> Coalesce(config.showAllSaints, FALSE)]

\* up() that forgets to carry into the year at month 13.
up_noYearCarry(s) ==
    IF s.month = 13
    THEN [s EXCEPT !.month = 1]
    ELSE [s EXCEPT !.month = s.month + 1]

\* up(): the next month, wrapping 13 -> 1 of the next year.
up(s) ==
    IF s.month = 13
    THEN [s EXCEPT !.month = 1, !.year = s.year + 1]
    ELSE [s EXCEPT !.month = s.month + 1]

\* down() that treats the year as having 12 months.
down_twelveMonths(s) ==
    IF s.month = 1
    THEN [s EXCEPT !.month = 12, !.year = s.year - 1]
    ELSE [s EXCEPT !.month = s.month - 1]

\* down(): the previous month, wrapping 1 -> 13 of the previous year.
down(s) ==
    IF s.month = 1
    THEN [s EXCEPT !.month = 13, !.year = s.year - 1]
    ELSE [s EXCEPT !.month = s.month - 1]

\* resetToCurrentMonth()
resetToCurrentMonth(s, current) ==
    [s EXCEPT !.year = current.year, !.month = current.month]

\* setDate(month, year)
setDate(s, m, y) == [s EXCEPT !.month = m, !.year = y]

\* _getRawDays() with a hard-coded month length of 30.
getRawDays_thirtyDays(s) ==
    [d \in 1..30 |->
        [ethiopian |-> [year |-> s.year, month |-> s.month, day |-> d],
         gregorian |->
            GetGregorian([year |-> s.year, month |-> s.month, day |-> d])]]

\* _getRawDays()
getRawDays(s) == MonthCalendarTable[s.year][s.month]

\* _getHolidays()
getHolidays(s) ==
    LET typedFilter ==
            IF s.mode = "public" THEN Some(<<HolidayTags.PUBLIC>>)
            ELSE IF s.mode = "muslim" THEN Some(<<HolidayTags.MUSLIM>>)
            ELSE IF s.mode = "christian" THEN Some(<<HolidayTags.CHRISTIAN>>)
            ELSE s.holidayFilter
    IN GetHolidaysInMonth(s.year, s.month, s.weekdayLang, typedFilter)

\* isToday that compares the day of the month only.
isTodayCell_dayOnly(eth, today) == eth.day = today.day

\* isToday of one raw day.
isTodayCell(eth, today) ==
    eth.year = today.year /\ eth.month = today.month /\ eth.day = today.day

RECURSIVE Flatten(_)
Flatten(ss) == IF ss = <<>> THEN <<>> ELSE Head(ss) \o Flatten(Tail(ss))

\* The DayCell _mergeDays builds for one raw day.
dayCell(s, day, holidaysList, today) ==
    LET eth == day.ethiopian
        greg == day.gregorian
        jsWeekday == JsGetDay(greg.year, greg.month, greg.day)
        sameDate(h) == h.ethiopian = eth
        holidays == SelectSeq(holidaysList, sameDate)
        monthLabels == MonthNames(s.weekdayLang)
    IN [ethiopian |->
            [year |-> IF s.useGeez THEN ToGeez(eth.year) ELSE <<eth.year>>,
             month |-> IF s.useGeez THEN <<monthLabels[eth.month]>>
                       ELSE <<eth.month>>,
             day |-> IF s.useGeez THEN ToGeez(eth.day) ELSE <<eth.day>>],
        ethiopianNumeric |-> eth,
        gregorian |-> greg,
        weekday |-> jsWeekday,
        weekdayName |-> WEEKDAY_LABELS(s.weekdayLang)[jsWeekday + 1],
        isToday |-> isTodayCell(eth, today),
        holidayTags |->
            Flatten([i \in 1..Len(holidays) |-> holidays[i].tags]),
        holidays |-> holidays]

\* A left-padding slot of the grid.
NullCell == [null |-> TRUE]

\* The left-padding count with the subtraction the wrong way round.
paddingOffset_swapped(s, mapped) ==
    IF Len(mapped) > 0
    THEN JsMod(s.weekStart - mapped[1].weekday + 7, 7)
    ELSE JsMod(s.weekStart - JsGetDay(s.year, s.month, 1) + 7, 7)

\* The left-padding count of _mergeDays.
paddingOffset(s, mapped) ==
    IF Len(mapped) > 0
    THEN JsMod(mapped[1].weekday - s.weekStart + 7, 7)
    ELSE JsMod(JsGetDay(s.year, s.month, 1) - s.weekStart + 7, 7)

\* _mergeDays(rawDays, holidaysList)
mergeDays(s, rawDays, holidaysList, today) ==
    LET mapped == [i \in 1..Len(rawDays) |->
                      dayCell(s, rawDays[i], holidaysList, today)]
        offset == paddingOffset(s, mapped)
    IN [i \in 1..offset |-> NullCell] \o mapped

\* _getWeekdayHeaders() without the wrapped-around head of the week.
getWeekdayHeaders_noWrap(s) ==
    LET labels == WEEKDAY_LABELS(s.weekdayLang)
    IN SubSeq(labels, s.weekStart + 1, Len(labels))

\* _getWeekdayHeaders()
getWeekdayHeaders(s) ==
    LET labels == WEEKDAY_LABELS(s.weekdayLang)
    IN SubSeq(labels, s.weekStart + 1, Len(labels))
       \o SubSeq(labels, 1, s.weekStart)

\* _getLocalizedMonthName()
getLocalizedMonthName(s) == MonthNames(s.weekdayLang)[s.month]

\* _getLocalizedYear()
getLocalizedYear(s) == IF s.useGeez THEN ToGeez(s.year) ELSE <<s.year>>

\* generate() that reports the month zero-based.
generate_zeroBasedMonth(s, today) ==
    [headers |-> getWeekdayHeaders(s),
     days |-> mergeDays(s, getRawDays(s), getHolidays(s), today),
     year |-> getLocalizedYear(s),
     month |-> s.month - 1,
     monthName |-> getLocalizedMonthName(s)]

\* generate(): a freshly built MonthGridResult.
generate(s, today) ==
    [headers |-> getWeekdayHeaders(s),
     days |-> mergeDays(s, getRawDays(s), getHolidays(s), today),
     year |-> getLocalizedYear(s),
     month |-> s.month,
     monthName |-> getLocalizedMonthName(s)]

----------------------------------------------------------------------------
(* The operations on one MonthGridService, as its owner calls them.        *)

Svc == inst[1]
Today == KenatNow(ticks)

\* The configurations a caller may pass to the constructor: any year/month
\* pair with either the layout options (weekStart, weekdayLang) or the
\* content options (useGeez, holidayFilter, mode) given.
AllConfigs ==
    [year : {Undefined, Some(BaseYear + 1)},
     month : {Undefined, Some(8), Some(13)},
     weekStart : {Undefined} \cup {Some(w) : w \in -1..7},
     useGeez : {Undefined, Some(TRUE)},
     weekdayLang : {Undefined, Some("amharic"), Some("english"),
                    Some("oromo")},
     holidayFilter : {Undefined, Some(<<"public">>)},
     mode : {Undefined, Some("christian")},
     showAllSaints : {Undefined}]

Configs ==
    {c \in AllConfigs :
        \/ (c.weekStart = Undefined /\ c.weekdayLang = Undefined)
        \/ (c.useGeez = Undefined /\ c.holidayFilter = Undefined
            /\ c.mode = Undefined)}

\* The (month, year) pairs a caller may pass to setDate.
SetDateInputs == {<<13, BaseYear>>, <<1, BaseYear + 1>>, <<5, BaseYear + 1>>}

\* The linear month index of a cursor.
LinearMonth(s) == s.year * 13 + (s.month - 1)

\* Is the cursor inside the navigation window?
InWindow(s) ==
    LET newYear == (BaseYear + 1) * 13
    IN /\ LinearMonth(s) >= newYear - 2
       /\ LinearMonth(s) < newYear + 2 * NavSpan - 1

\* new MonthGridService(config): throws, or yields the instance.
Construct ==
    /\ inst = <<>>
    /\ \E config \in Configs :
        /\ inst' = IF validateConfigThrows(config)
                   THEN <<>>
                   ELSE <<constructor(config, Today)>>
        /\ lastOp' = <<"construct", config>>
    /\ UNCHANGED <<result, ticks>>
    /\ UNCHANGED offGrid

\* Does the getHolidaysInMonth call of _getHolidays() throw?  _getHolidays
\* and generate have no try/catch: the exception leaves generate(), and
\* its caller is handed no result.
getHolidaysThrows == holidayTable = "throws"

\* svc.generate()
Generate ==
    /\ inst # <<>>
    /\ IF getHolidaysThrows
       THEN /\ result' = result
            /\ lastOp' = <<"generate.threw">>
       ELSE /\ result' = <<generate(Svc, Today)>>
            /\ lastOp' = <<"generate", lastOp[1] = "reset">>
    /\ UNCHANGED <<inst, ticks>>
    /\ UNCHANGED offGrid

\* svc.up()
Up ==
    /\ inst # <<>>
    /\ InWindow(up(Svc))
    /\ inst' = <<up(Svc)>>
    /\ lastOp' = <<"up">>
    /\ UNCHANGED <<result, ticks>>
    /\ UNCHANGED offGrid

\* svc.down()
Down ==
    /\ inst # <<>>
    /\ InWindow(down(Svc))
    /\ inst' = <<down(Svc)>>
    /\ lastOp' = <<"down">>
    /\ UNCHANGED <<result, ticks>>
    /\ UNCHANGED offGrid

\* result.up(): the closure generate() returns, () => this.up().generate()
ResultUp ==
    /\ inst # <<>>
    /\ result # <<>>
    /\ InWindow(up(Svc))
    /\ inst' = <<up(Svc)>>
    /\ IF getHolidaysThrows
       THEN /\ result' = result
            /\ lastOp' = <<"result.up.threw">>
       ELSE /\ result' = <<generate(up(Svc), Today)>>
            /\ lastOp' = <<"result.up">>
    /\ UNCHANGED ticks
    /\ UNCHANGED offGrid

\* result.down(): () => this.down().generate()
ResultDown ==
    /\ inst # <<>>
    /\ result # <<>>
    /\ InWindow(down(Svc))
    /\ inst' = <<down(Svc)>>
    /\ IF getHolidaysThrows
       THEN /\ result' = result
            /\ lastOp' = <<"result.down.threw">>
       ELSE /\ result' = <<generate(down(Svc), Today)>>
            /\ lastOp' = <<"result.down">>
    /\ UNCHANGED ticks
    /\ UNCHANGED offGrid

\* svc.resetToCurrentMonth()
ResetToCurrentMonth ==
    /\ inst # <<>>
    /\ inst' = <<resetToCurrentMonth(Svc, Today)>>
    /\ lastOp' = <<"reset">>
    /\ UNCHANGED <<result, ticks>>
    /\ UNCHANGED offGrid

\* svc.setDate(month, year)
SetDate ==
    /\ inst # <<>>
    /\ \E a \in SetDateInputs : inst' = <<setDate(Svc, a[1], a[2])>>
    /\ lastOp' = <<"setDate">>
    /\ UNCHANGED <<result, ticks>>
    /\ UNCHANGED offGrid

\* Midnight on the host clock: the library's "now" moves to the next day.
Tick ==
    /\ ticks < MaxTicks
    /\ ticks' = ticks + 1
    /\ lastOp' = <<"tick">>
    /\ UNCHANGED <<inst, result>>
    /\ UNCHANGED offGrid

DayIdle ==
    /\ language = "amharic"
    /\ dayIn = <<>>
    /\ dayOut = <<>>
    /\ calcOut = <<>>
    /\ holidayTable = "ok"
    /\ UiIdle

GridInit ==
    /\ inst = <<>>
    /\ result = <<>>
    /\ lastOp = <<"init">>
    /\ ticks = 0
    /\ DayIdle

GridNext ==
    \/ Construct
    \/ Generate
    \/ Up
    \/ Down
    \/ ResultUp
    \/ ResultDown
    \/ ResetToCurrentMonth
    \/ SetDate
    \/ Tick

GridSpec == GridInit /\ [][GridNext]_vars

----------------------------------------------------------------------------
(* Properties of MonthGridService.                                         *)

UpStep == lastOp'[1] \in {"up", "result.up"}
DownStep == lastOp'[1] \in {"down", "result.down"}

\* The result the caller holds was generated from the current cursor at the
\* current date.
Fresh == result # <<>> /\ lastOp[1] \in {"generate", "result.up", "result.down"}

\* The number of null cells before the first day cell.
LeadingNulls(days) ==
    CHOOSE k \in 0..Len(days) :
        /\ \A i \in 1..k : days[i] = NullCell
        /\ (k = Len(days) \/ days[k + 1] # NullCell)

DayCells(days) == SelectSeq(days, LAMBDA c : c # NullCell)

TodayCount(days) ==
    Cardinality({i \in 1..Len(days) : days[i] # NullCell /\ days[i].isToday})

\* C1: up() then down(), or down() then up(), returns the cursor to where it
\* was, in every month and across the year boundary: after every up() the
\* method down() leads back to the service as it was, and conversely.
C1_UpDownRoundTrip ==
    [][/\ (UpStep => down(inst'[1]) = Svc)
       /\ (DownStep => up(inst'[1]) = Svc)]_vars

\* C1 is exercised at the year boundary: down() has just wrapped month 1 to
\* month 13 of the year before.
C1_Witness ==
    /\ lastOp = <<"down">>
    /\ Svc.month = 13
    /\ Svc.year = BaseYear

\* C2: from a month in 1..13 every up() moves the linear month index
\* year * 13 + (month - 1) up by exactly one and every down() moves it down
\* by exactly one, and the month stays in 1..13.
C2_NavigationStep ==
    [][/\ (UpStep /\ Svc.month \in 1..13 =>
              /\ inst'[1].month \in 1..13
              /\ LinearMonth(inst'[1]) = LinearMonth(Svc) + 1)
       /\ (DownStep /\ Svc.month \in 1..13 =>
              /\ inst'[1].month \in 1..13
              /\ LinearMonth(inst'[1]) = LinearMonth(Svc) - 1)]_vars

\* C2 is exercised at the wrap: up() has just moved from month 13 to month 1
\* of the next year.
C2_Witness ==
    /\ lastOp = <<"up">>
    /\ Svc.month = 1
    /\ Svc.year = BaseYear + 1

\* C3: the number of leading null cells of generate().days is in 0..6 and is
\* (weekday of day 1 - weekStart + 7) mod 7, the weekday (0 = Sunday) being
\* that of the Julian day number of day 1 of the month.
C3_LeftPadding ==
    Fresh =>
        LET weekday1 == (EthToJdn(Svc.year, Svc.month, 1) + 1) % 7
            nulls == LeadingNulls(result[1].days)
        IN /\ nulls \in 0..6
           /\ nulls = (weekday1 - Svc.weekStart + 7) % 7

\* C3 is exercised where the subtraction is negative: the week starts later
\* than the weekday of day 1, and the grid has padding.
C3_Witness ==
    /\ Fresh
    /\ (EthToJdn(Svc.year, Svc.month, 1) + 1) % 7 < Svc.weekStart
    /\ LeadingNulls(result[1].days) > 0

\* C4: the day cells of generate().days are exactly the days of the month
\* as the library counts them, in order: 30 in months 1..12, 5 or 6 in
\* month 13.
C4_DayCount ==
    Fresh =>
        LET cells == DayCells(result[1].days)
        IN /\ Len(cells) = DaysInMonth(Svc.year, Svc.month)
           /\ Len(cells) =
                 IF Svc.month <= 12 THEN 30
                 ELSE IF Svc.year % 4 = 3 THEN 6 ELSE 5
           /\ \A i \in 1..Len(cells) :
                 cells[i].ethiopianNumeric =
                     [year |-> Svc.year, month |-> Svc.month, day |-> i]

\* C4 is exercised on Pagume of a year that is not a leap year: a grid of
\* its 5 days has been generated.
C4_Witness ==
    /\ Fresh
    /\ Svc.month = 13
    /\ Svc.year % 4 # 3
    /\ Len(DayCells(result[1].days)) = 5

\* C5: generate().headers has exactly 7 entries, the Sunday-first weekday
\* names rotated to start at weekStart.
C5_HeadersRotation ==
    Fresh =>
        LET headers == result[1].headers
            labels == WEEKDAY_LABELS(Svc.weekdayLang)
        IN /\ Len(headers) = 7
           /\ \A i \in 0..6 :
                 headers[i + 1] = labels[((Svc.weekStart + i) % 7) + 1]

\* C5 is exercised with a week that starts on Saturday, in English.
C5_Witness ==
    /\ Fresh
    /\ Svc.weekStart = 6
    /\ Svc.weekdayLang = "english"
    /\ result[1].headers[1] = "Saturday"
    /\ result[1].headers[2] = "Sunday"

\* C6: generate() right after resetToCurrentMonth() marks exactly one cell
\* isToday; whenever the cursor's (year, month) is the library's current one
\* generate() marks exactly one cell, and zero cells otherwise.
C6_TodayMarking ==
    /\ (lastOp = <<"generate", TRUE>> => TodayCount(result[1].days) = 1)
    /\ (Fresh =>
            TodayCount(result[1].days) =
                IF Svc.year = Today.year /\ Svc.month = Today.month
                THEN 1 ELSE 0)

\* C6 is exercised after the clock moved into the new year: reset, then
\* generate, marks day 1 of month 1.
C6_Witness ==
    /\ lastOp = <<"generate", TRUE>>
    /\ ticks > 0
    /\ TodayCount(result[1].days) = 1

\* The configuration defects the constructor refuses.
Defective(config) ==
    \/ (config.year = Undefined) # (config.month = Undefined)
    \/ (config.weekStart # Undefined /\ config.weekStart[1] \notin 0..6)
    \/ (config.weekdayLang # Undefined
        /\ config.weekdayLang[1] # "amharic"
        /\ config.weekdayLang[1] # "english")

\* C7: the constructor throws and yields no instance exactly when the
\* configuration is defective; when it succeeds every provided value is the
\* one the instance holds.
C7_ConstructorValidation ==
    lastOp[1] = "construct" =>
        LET config == lastOp[2]
        IN /\ (inst = <<>>) <=> Defective(config)
           /\ inst # <<>> =>
                 /\ (config.year # Undefined => Svc.year = config.year[1])
                 /\ (config.month # Undefined => Svc.month = config.month[1])
                 /\ (config.weekStart # Undefined =>
                        Svc.weekStart = config.weekStart[1])
                 /\ (config.weekdayLang # Undefined =>
                        Svc.weekdayLang = config.weekdayLang[1])

\* C7 is exercised by a refusal: weekStart 7 with nothing else wrong.
C7_Witness ==
    /\ lastOp[1] = "construct"
    /\ inst = <<>>
    /\ lastOp[2].weekStart = Some(7)
    /\ lastOp[2].year = Undefined
    /\ lastOp[2].month = Undefined
    /\ lastOp[2].weekdayLang = Some("english")

\* The configuration of a service: everything but the cursor.
ConfigOf(s) ==
    <<s.weekStart, s.useGeez, s.weekdayLang, s.holidayFilter, s.mode,
      s.showAllSaints>>

\* C8: generate() leaves the service as it is and returns a result for the
\* cursor's month; up() and down() change the cursor only, never the
\* configuration, and leave the result returned earlier as it is.
C8_TwoStepNavigation ==
    [][/\ (lastOp'[1] = "generate" =>
              /\ inst' = inst
              /\ result' # <<>>
              /\ result'[1].month = Svc.month)
       /\ (lastOp'[1] \in {"up", "down"} =>
              /\ ConfigOf(inst'[1]) = ConfigOf(Svc)
              /\ LinearMonth(inst'[1]) # LinearMonth(Svc)
              /\ result' = result)
       /\ (lastOp'[1] \in {"result.up", "result.down"} =>
              /\ ConfigOf(inst'[1]) = ConfigOf(Svc)
              /\ result'[1].month = inst'[1].month)]_vars

\* C8 is exercised by a stale result: after up() the caller still holds the
\* grid of the month before.
C8_Witness ==
    /\ lastOp = <<"up">>
    /\ result # <<>>
    /\ result[1].month # Svc.month

----------------------------------------------------------------------------
(* DayInfoService.                                                         *)

\* Object.values(FastingKeys), in declaration order.
FastingKeys ==
    <<"ABIY_TSOME", "TSOME_HAWARYAT", "TSOME_NEBIYAT", "NINEVEH", "RAMADAN",
      "FILSETA", "TSOME_DIHENET">>

\* getWeekday(date): the JavaScript weekday of the Gregorian equivalent.
getWeekday(date) ==
    LET gregorian == GetGregorian(date)
    IN JsGetDay(gregorian.year, gregorian.month, gregorian.day)

\* getWeekdayName that ignores the language of the service.
getWeekdayName_alwaysAmharic(lang, weekday) ==
    WEEKDAY_LABELS("amharic")[weekday + 1]

\* getWeekdayName(weekday)
getWeekdayName(lang, weekday) == WEEKDAY_LABELS(lang)[weekday + 1]

\* getDayHolidays(date) that forgets to filter by day.
getDayHolidays_wholeMonth(date, lang, throws) ==
    IF throws
    THEN <<>>
    ELSE GetHolidaysInMonth(date.year, date.month, lang, Undefined)

\* getDayHolidays(date): throws says whether getHolidaysInMonth throws.
getDayHolidays(date, lang, throws) ==
    IF throws
    THEN <<>>
    ELSE SelectSeq(GetHolidaysInMonth(date.year, date.month, lang, Undefined),
                   LAMBDA holiday : holiday.ethiopian.day = date.day)

\* isDateInRange with an exclusive end.
isDateInRange_exclusiveEnd(date, start, end) ==
    LET dateValue == date.year * 10000 + date.month * 100 + date.day
        startValue == start.year * 10000 + start.month * 100 + start.day
        endValue == end.year * 10000 + end.month * 100 + end.day
    IN dateValue >= startValue /\ dateValue < endValue

\* isDateInRange(date, start, end)
isDateInRange(date, start, end) ==
    LET dateValue == date.year * 10000 + date.month * 100 + date.day
        startValue == start.year * 10000 + start.month * 100 + start.day
        endValue == end.year * 10000 + end.month * 100 + end.day
    IN dateValue >= startValue /\ dateValue <= endValue

Max(a, b) == IF a >= b THEN a ELSE b

\* calculateDayInPeriod without the floor at 1.
calculateDayInPeriod_noFloor(date, start) == DiffInDays(date, start) + 1

\* calculateDayInPeriod(date, start)
calculateDayInPeriod(date, start) == Max(1, DiffInDays(date, start) + 1)

\* calculateTotalDays(start, end)
calculateTotalDays(start, end) == Max(1, DiffInDays(end, start) + 1)

\* isTsomeDihnetFastDay(date)
isTsomeDihnetFastDay(date) ==
    LET weekday == getWeekday(date)
    IN weekday = 3 \/ weekday = 5

\* One round of the forEach of getDayFastingContext: what the callback
\* pushes for fastKey, given what getFastingInfo does for it.
fastingContextOf(date, lang, fastKey, outcome) ==
    IF outcome = "throws"
    THEN <<>>
    ELSE
      LET fastingInfo == GetFastingInfo(fastKey, date.year, lang, outcome)
      IN IF fastingInfo = Undefined \/ fastingInfo[1].period = Undefined
         THEN IF fastKey = "TSOME_DIHENET" /\ isTsomeDihnetFastDay(date)
              THEN <<[key |-> fastKey,
                      name |-> IF fastingInfo = Undefined
                               THEN "Fast of Salvation"
                               ELSE fastingInfo[1].name,
                      description |->
                          IF fastingInfo = Undefined
                          THEN "Weekly fast on Wednesdays and Fridays"
                          ELSE fastingInfo[1].description,
                      currentDay |-> 1,
                      totalDays |-> 1,
                      isActive |-> TRUE,
                      period |-> Undefined]>>
              ELSE <<>>
         ELSE
           LET period == fastingInfo[1].period[1]
           IN IF isDateInRange(date, period.start, period.end)
              THEN <<[key |-> fastKey,
                      name |-> fastingInfo[1].name,
                      description |-> fastingInfo[1].description,
                      currentDay |->
                          calculateDayInPeriod(date, period.start),
                      totalDays |->
                          calculateTotalDays(period.start, period.end),
                      isActive |-> TRUE,
                      period |-> Some(period)]>>
              ELSE <<>>

\* getDayFastingContext with one try/catch around the whole loop: a lookup
\* that throws loses every fasting period.
getDayFastingContext_catchAll(date, lang, lookup) ==
    IF \E k \in DOMAIN lookup : lookup[k] = "throws"
    THEN <<>>
    ELSE Flatten([i \in 1..Len(FastingKeys) |->
                    fastingContextOf(date, lang, FastingKeys[i],
                                     lookup[FastingKeys[i]])])

\* getDayFastingContext(date): lookup[key] is what getFastingInfo does.
getDayFastingContext(date, lang, lookup) ==
    Flatten([i \in 1..Len(FastingKeys) |->
                fastingContextOf(date, lang, FastingKeys[i],
                                 lookup[FastingKeys[i]])])

\* getDayInformation(date)
getDayInformation(date, lang, today, throws, lookup) ==
    LET weekday == getWeekday(date)
    IN [ethiopian |-> date,
        gregorian |-> GetGregorian(date),
        holidays |-> getDayHolidays(date, lang, throws),
        fastingPeriods |-> getDayFastingContext(date, lang, lookup),
        isToday |-> (date.year = today.year /\ date.month = today.month
                     /\ date.day = today.day),
        weekday |-> weekday,
        weekdayName |-> getWeekdayName(lang, weekday)]

\* formatFastingContext(fasting)
formatFastingContext(lang, fasting) ==
    IF fasting.key = "TSOME_DIHENET"
    THEN fasting.name
    ELSE <<IF lang = "amharic" THEN "Qen" ELSE "Day", fasting.currentDay,
           "/", fasting.totalDays, "-", fasting.name>>

\* getDayEvents with the fasting entries put first.
getDayEvents_fastingFirst(date, lang, today, throws, lookup) ==
    LET dayInfo == getDayInformation(date, lang, today, throws, lookup)
        holidayEvents ==
            [i \in 1..Len(dayInfo.holidays) |->
                [type |-> "holiday",
                 title |-> dayInfo.holidays[i].name,
                 description |-> dayInfo.holidays[i].description,
                 tags |-> dayInfo.holidays[i].tags]]
        fastingEvents ==
            [i \in 1..Len(dayInfo.fastingPeriods) |->
                [type |-> "fasting",
                 title |-> formatFastingContext(lang,
                                                dayInfo.fastingPeriods[i]),
                 description |-> dayInfo.fastingPeriods[i].description,
                 tags |-> <<>>]]
        events == fastingEvents \o holidayEvents
    IN [dayInfo |-> dayInfo,
        events |-> events,
        hasEvents |-> Len(events) > 0]

\* getDayEvents(date)
getDayEvents(date, lang, today, throws, lookup) ==
    LET dayInfo == getDayInformation(date, lang, today, throws, lookup)
        holidayEvents ==
            [i \in 1..Len(dayInfo.holidays) |->
                [type |-> "holiday",
                 title |-> dayInfo.holidays[i].name,
                 description |-> dayInfo.holidays[i].description,
                 tags |-> dayInfo.holidays[i].tags]]
        fastingEvents ==
            [i \in 1..Len(dayInfo.fastingPeriods) |->
                [type |-> "fasting",
                 title |-> formatFastingContext(lang,
                                                dayInfo.fastingPeriods[i]),
                 description |-> dayInfo.fastingPeriods[i].description,
                 tags |-> <<>>]]
        events == holidayEvents \o fastingEvents
    IN [dayInfo |-> dayInfo,
        events |-> events,
        hasEvents |-> Len(events) > 0]

----------------------------------------------------------------------------
(* The operations on one DayInfoService.                                   *)

\* The dates a caller asks about: every day of the year after BaseYear, and
\* the first day of the host clock.
DayYear == BaseYear + 1
DayDates ==
    {e \in [year : {DayYear}, month : Months, day : 1..30] :
        e.day <= DaysInMonth(e.year, e.month)}
    \cup {StartToday}

\* What the library does in a lookup when nothing is wrong: every fast has
\* a period but the weekly one.
NormalOutcome(key) == IF key = "TSOME_DIHENET" THEN "noPeriod" ELSE "period"

KeySet == {FastingKeys[i] : i \in 1..Len(FastingKeys)}

\* What getFastingInfo does for each key during the calls of one run: the
\* normal behaviour, or one key for which it does something else.
FastingLookups ==
    {[k \in KeySet |-> NormalOutcome(k)]}
    \cup {[k \in KeySet |-> IF k = odd THEN o ELSE NormalOutcome(k)] :
            odd \in KeySet, o \in {"throws", "null", "noPeriod"}}

NormalLookup == [k \in KeySet |-> NormalOutcome(k)]

\* The date a run asks about, with what the library does: at most one of
\* its lookups misbehaves.
DayInputs ==
    {[date |-> d, holidaysThrow |-> t, lookup |-> l] :
        d \in DayDates, t \in BOOLEAN, l \in FastingLookups}
    \cap {i \in [date : DayDates, holidaysThrow : BOOLEAN,
                 lookup : FastingLookups] :
            i.holidaysThrow => i.lookup = NormalLookup}

DayIn == dayIn[1]

\* updateLanguage(language)
UpdateLanguage ==
    /\ \E lang \in {"amharic", "english"} :
        /\ lang # language
        /\ language' = lang
    /\ UNCHANGED <<dayIn, dayOut>>
    /\ UNCHANGED offDay

\* getDayInformation(date)
GetDayInformation ==
    /\ dayIn # <<>>
    /\ dayOut' =
          <<[op |-> "getDayInformation",
             value |-> getDayInformation(DayIn.date, language, Today,
                                         DayIn.holidaysThrow, DayIn.lookup)]>>
    /\ UNCHANGED <<language, dayIn>>
    /\ UNCHANGED offDay

\* getDayEvents(date)
GetDayEvents ==
    /\ dayIn # <<>>
    /\ dayOut' =
          <<[op |-> "getDayEvents",
             value |-> getDayEvents(DayIn.date, language, Today,
                                    DayIn.holidaysThrow, DayIn.lookup)]>>
    /\ UNCHANGED <<language, dayIn>>
    /\ UNCHANGED offDay

\* new DayInfoService(): the language defaults to "amharic".
DayInit ==
    /\ inst = <<>>
    /\ result = <<>>
    /\ lastOp = <<"init">>
    /\ ticks = 0
    /\ language = "amharic"
    /\ dayIn \in {<<i>> : i \in DayInputs}
    /\ dayOut = <<>>
    /\ calcOut = <<>>
    /\ holidayTable = "ok"
    /\ UiIdle

DayNext ==
    \/ UpdateLanguage
    \/ GetDayInformation
    \/ GetDayEvents

DayInfoSpec == DayInit /\ [][DayNext]_vars

----------------------------------------------------------------------------
(* Properties of DayInfoService.                                           *)

\* The DayInformation of the last call, whichever method returned it.
LastDayInfo ==
    IF dayOut[1].op = "getDayEvents"
    THEN dayOut[1].value.dayInfo
    ELSE dayOut[1].value

\* The weekday (0 = Sunday) of an Ethiopian date, from its Julian day number.
WeekdayOf(date) == (EthToJdn(date.year, date.month, date.day) + 1) % 7

\* a is not after b, as calendar dates.
NotAfter(a, b) ==
    \/ a.year < b.year
    \/ (a.year = b.year /\ a.month < b.month)
    \/ (a.year = b.year /\ a.month = b.month /\ a.day <= b.day)

\* Does the period of key, as the library gives it, contain the date?
InPeriod(key, date) ==
    LET p == FastingPeriodOf(key, date.year)
    IN p # Undefined /\ NotAfter(p[1].start, date) /\ NotAfter(date, p[1].end)

\* The same through the integer encoding year * 10000 + month * 100 + day.
Encoded(d) == d.year * 10000 + d.month * 100 + d.day
InPeriodEncoded(key, date) ==
    LET p == FastingPeriodOf(key, date.year)
    IN /\ p # Undefined
       /\ Encoded(p[1].start) <= Encoded(date)
       /\ Encoded(date) <= Encoded(p[1].end)

\* Is the fast of key active on the date of the run?
ActiveFast(key) ==
    LET o == DayIn.lookup[key]
    IN \/ (o = "period" /\ InPeriod(key, DayIn.date))
       \/ (o \in {"null", "noPeriod"} /\ key = "TSOME_DIHENET"
           /\ WeekdayOf(DayIn.date) \in {3, 5})

\* The holidays of the library's table that fall on the date of the run.
HolidaysOnDate ==
    SelectSeq(GetHolidaysForYear(DayIn.date.year, "english"),
              LAMBDA h : h.ethiopian = DayIn.date)

\* The keys of a list of holidays or fasting contexts, in order.
KeysOf(list) == [i \in 1..Len(list) |-> list[i].key]

\* Is key among the fasting periods the last call reported?
Reported(key) ==
    \E i \in 1..Len(LastDayInfo.fastingPeriods) :
        LastDayInfo.fastingPeriods[i].key = key

\* C9: getDayEvents(date).hasEvents is true exactly when events is not empty;
\* events holds one entry for each holiday of the table whose Ethiopian date
\* is the date (none when the holiday lookup throws), then one entry for each
\* fasting period active on the date, and nothing else.
C9_DayEvents ==
    (dayOut # <<>> /\ dayOut[1].op = "getDayEvents") =>
        LET out == dayOut[1].value
            holidays == out.dayInfo.holidays
            fasts == out.dayInfo.fastingPeriods
            nh == Len(holidays)
        IN /\ out.hasEvents <=> (Len(out.events) > 0)
           /\ KeysOf(holidays) =
                 IF DayIn.holidaysThrow THEN <<>> ELSE KeysOf(HolidaysOnDate)
           /\ {fasts[i].key : i \in 1..Len(fasts)} =
                 {k \in KeySet : ActiveFast(k)}
           /\ Len(fasts) = Cardinality({k \in KeySet : ActiveFast(k)})
           /\ Len(out.events) = nh + Len(fasts)
           /\ \A i \in 1..nh :
                 /\ out.events[i].type = "holiday"
                 /\ out.events[i].title = holidays[i].name
           /\ \A i \in 1..Len(fasts) :
                 /\ out.events[nh + i].type = "fasting"
                 /\ out.events[nh + i].description = fasts[i].description

\* C9 is exercised on a day with a holiday and a fast: the events list has
\* an entry of each type.
C9_Witness ==
    /\ dayOut # <<>>
    /\ dayOut[1].op = "getDayEvents"
    /\ dayOut[1].value.hasEvents
    /\ Len(dayOut[1].value.dayInfo.holidays) > 0
    /\ Len(dayOut[1].value.dayInfo.fastingPeriods) > 0
    /\ Len(dayOut[1].value.events) >= 2

\* C10 as first stated: a key with a period is reported iff the date is in
\* the inclusive range; a key whose lookup returns no period is reported iff
\* the weekday is Wednesday (3) or Friday (5).
C10_AsStated ==
    dayOut # <<>> =>
        \A k \in KeySet :
            LET o == DayIn.lookup[k]
            IN /\ (o = "period" =>
                      (Reported(k) <=> InPeriodEncoded(k, DayIn.date)))
               /\ (o \in {"null", "noPeriod"} =>
                      (Reported(k) <=> WeekdayOf(DayIn.date) \in {3, 5}))

\* C10, amended: a key with a period is reported iff start <= date <= end,
\* inclusive, by the integer encoding (which agrees with the calendar
\* order); a key whose lookup returns no period is reported iff it is
\* TSOME_DIHENET and the weekday is Wednesday (3) or Friday (5).
C10_FastingMembership ==
    dayOut # <<>> =>
        \A k \in KeySet :
            LET o == DayIn.lookup[k]
            IN /\ (o = "period" =>
                      /\ Reported(k) <=> InPeriodEncoded(k, DayIn.date)
                      /\ Reported(k) <=> InPeriod(k, DayIn.date))
               /\ (o \in {"null", "noPeriod"} =>
                      (Reported(k) <=>
                          (k = "TSOME_DIHENET"
                           /\ WeekdayOf(DayIn.date) \in {3, 5})))

\* C10 is exercised on a Wednesday, the last day of a period, with a key
\* other than the weekly fast whose lookup returns no period: the period
\* and the weekly fast are reported, the key without a period is not.
C10_Witness ==
    /\ dayOut # <<>>
    /\ WeekdayOf(DayIn.date) = 3
    /\ DayIn.lookup["RAMADAN"] = "noPeriod"
    /\ ~Reported("RAMADAN")
    /\ Reported("TSOME_DIHENET")
    /\ \E k \in KeySet :
          /\ DayIn.lookup[k] = "period"
          /\ FastingPeriodOf(k, DayIn.date.year)[1].end = DayIn.date
          /\ Reported(k)


----------------------------------------------------------------------------
(* The day-count helpers of DayInfoService, called on their own.           *)

GridIdle ==
    /\ inst = <<>>
    /\ result = <<>>
    /\ lastOp = <<"init">>
    /\ ticks = 0

\* The keys for which the library has a period.
PeriodKeys == {k \in KeySet : FastingPeriodOf(k, DayYear) # Undefined}

\* calculateDayInPeriod(date, start) for the date of the run and either
\* bound of a period of its year: the date falls before, on or after it.
CalculateDayInPeriod ==
    /\ dayIn # <<>>
    /\ \E k \in PeriodKeys, bound \in {"start", "end"} :
          LET p == FastingPeriodOf(k, DayIn.date.year)[1]
              start == IF bound = "start" THEN p.start ELSE p.end
          IN calcOut' =
                <<[fn |-> "calculateDayInPeriod",
                   from |-> start,
                   to |-> DayIn.date,
                   value |-> calculateDayInPeriod(DayIn.date, start)]>>
    /\ UNCHANGED <<gridVars, dayVars, libVars, uiVars, extVars>>

\* calculateTotalDays(start, end) for the bounds of a period: in order,
\* swapped, or twice the same date.
CalculateTotalDays ==
    /\ dayIn # <<>>
    /\ \E k \in PeriodKeys, order \in {"forward", "backward", "same"} :
          LET p == FastingPeriodOf(k, DayIn.date.year)[1]
              start == IF order = "backward" THEN p.end ELSE p.start
              end == IF order = "forward" THEN p.end ELSE p.start
          IN calcOut' =
                <<[fn |-> "calculateTotalDays",
                   from |-> start,
                   to |-> end,
                   value |-> calculateTotalDays(start, end)]>>
    /\ UNCHANGED <<gridVars, dayVars, libVars, uiVars, extVars>>

\* The runs ask about one date; the library's lookups behave.
PeriodInit ==
    /\ GridIdle
    /\ language = "amharic"
    /\ dayIn \in {<<i>> : i \in {j \in DayInputs :
                                    /\ ~j.holidaysThrow
                                    /\ j.lookup = NormalLookup}}
    /\ dayOut = <<>>
    /\ calcOut = <<>>
    /\ holidayTable = "ok"
    /\ UiIdle

PeriodNext ==
    \/ CalculateDayInPeriod
    \/ CalculateTotalDays
    \/ GetDayInformation

PeriodSpec == PeriodInit /\ [][PeriodNext]_vars

\* C11: calculateDayInPeriod and calculateTotalDays return a value >= 1 for
\* every input (1 + the day difference when that is positive, 1 when the
\* difference is zero or negative), and every FastingContext returned has
\* currentDay >= 1 and totalDays >= 1.
C11_DayCountsAtLeastOne ==
    /\ calcOut # <<>> =>
          LET c == calcOut[1]
              diff == DiffInDays(c.to, c.from)
          IN /\ c.value >= 1
             /\ c.value = IF diff >= 0 THEN diff + 1 ELSE 1
    /\ dayOut # <<>> =>
          \A i \in 1..Len(LastDayInfo.fastingPeriods) :
              /\ LastDayInfo.fastingPeriods[i].currentDay >= 1
              /\ LastDayInfo.fastingPeriods[i].totalDays >= 1

\* C11 is exercised by a date that falls before the start it is counted
\* from (a negative difference), after a call that reported the first day
\* of a period.
C11_Witness ==
    /\ calcOut # <<>>
    /\ calcOut[1].fn = "calculateDayInPeriod"
    /\ DiffInDays(calcOut[1].to, calcOut[1].from) < 0
    /\ calcOut[1].value = 1
    /\ dayOut # <<>>
    /\ \E i \in 1..Len(LastDayInfo.fastingPeriods) :
          LET f == LastDayInfo.fastingPeriods[i]
          IN /\ f.period # Undefined
             /\ f.period[1].start = DayIn.date
             /\ f.currentDay = 1
             /\ f.totalDays > 1


----------------------------------------------------------------------------
(* DayInfoService: failing lookups.                                        *)

\* Is the fast of key active on the date when the library behaves?
NormallyActive(key, date) ==
    \/ InPeriod(key, date)
    \/ (key = "TSOME_DIHENET" /\ WeekdayOf(date) \in {3, 5})

\* The keys of the fasts active on the date, in the order of FastingKeys,
\* leaving out the key skip.
ExpectedFasts(date, skip) ==
    SelectSeq(FastingKeys, LAMBDA k : k # skip /\ NormallyActive(k, date))

\* The key whose lookup throws in this run, if any.
ThrowingKeys == {k \in KeySet : DayIn.lookup[k] = "throws"}

\* C12: a lookup that throws degrades only its own category.  If the holiday
\* lookup throws, the call returns holidays = [] and the fasting periods of
\* a run without failure; if the fasting lookup throws for one key, the
\* call returns the holidays of the date and the fasting periods of all
\* other keys.  The call returns a DayInformation in both cases.
C12_LookupFailureIsolated ==
    dayOut # <<>> =>
        /\ DayIn.holidaysThrow =>
              /\ LastDayInfo.holidays = <<>>
              /\ KeysOf(LastDayInfo.fastingPeriods) =
                    ExpectedFasts(DayIn.date, "none")
        /\ \A k \in ThrowingKeys :
              /\ KeysOf(LastDayInfo.holidays) = KeysOf(HolidaysOnDate)
              /\ KeysOf(LastDayInfo.fastingPeriods) =
                    ExpectedFasts(DayIn.date, k)
        /\ LastDayInfo.ethiopian = DayIn.date
        /\ LastDayInfo.weekday = WeekdayOf(DayIn.date)

\* C12 is exercised on a day inside two fasts when the lookup of one of them
\* throws: that fast is missing, the other one is reported.
C12_Witness ==
    /\ dayOut # <<>>
    /\ \E k \in ThrowingKeys :
          /\ NormallyActive(k, DayIn.date)
          /\ ~Reported(k)
          /\ \E other \in KeySet \ {k} : Reported(other)


----------------------------------------------------------------------------
(* MonthGridService when the library's holiday table fails.                *)

\* As GridInit, but the holiday lookup of the run may throw.
GridFailInit ==
    /\ GridIdle
    /\ language = "amharic"
    /\ dayIn = <<>>
    /\ dayOut = <<>>
    /\ calcOut = <<>>
    /\ holidayTable \in {"ok", "throws"}
    /\ UiIdle

GridFailSpec == GridFailInit /\ [][GridNext]_vars

\* C13: when the holiday-table lookup throws, generate() catches the failure
\* and still returns the grid of the cursor's month, with holidays = [] and
\* holidayTags = [] on every day cell; the exception does not reach the
\* caller.
C13_GenerateSurvivesLookupFailure ==
    (holidayTable = "throws"
     /\ lastOp[1] \in {"generate", "generate.threw"}) =>
        /\ lastOp[1] = "generate"
        /\ result # <<>>
        /\ result[1].month = Svc.month
        /\ Len(DayCells(result[1].days)) = DaysInMonth(Svc.year, Svc.month)
        /\ \A i \in 1..Len(result[1].days) :
              result[1].days[i] # NullCell =>
                  /\ result[1].days[i].holidays = <<>>
                  /\ result[1].days[i].holidayTags = <<>>


----------------------------------------------------------------------------
(* DayInfoService: the order of the events.                                *)

\* The position of x in a sequence without repetitions.
IndexIn(seq, x) == CHOOSE i \in 1..Len(seq) : seq[i] = x

\* Are the keys of list in the order in which they appear in table?
InOrderOf(list, table) ==
    \A i, j \in 1..Len(list) :
        i < j => IndexIn(table, list[i].key) < IndexIn(table, list[j].key)

\* C14: in getDayEvents(date).events every 'holiday' entry precedes every
\* 'fasting' entry; the holiday entries follow the order of the holiday
\* table and the fasting entries the order of the fasting-key list.
C14_EventOrder ==
    (dayOut # <<>> /\ dayOut[1].op = "getDayEvents") =>
        LET out == dayOut[1].value
            events == out.events
            holidays == out.dayInfo.holidays
            fasts == out.dayInfo.fastingPeriods
            nh == Len(holidays)
            table == KeysOf(GetHolidaysForYear(DayIn.date.year, "english"))
        IN /\ \A i, j \in 1..Len(events) :
                 (events[i].type = "fasting" /\ events[j].type = "holiday")
                     => j < i
           /\ Len(events) = nh + Len(fasts)
           /\ InOrderOf(holidays, table)
           /\ \A i \in 1..nh :
                 /\ events[i].type = "holiday"
                 /\ events[i].title = holidays[i].name
                 /\ events[i].tags = holidays[i].tags
           /\ InOrderOf(fasts, FastingKeys)
           /\ \A i \in 1..Len(fasts) :
                 /\ events[nh + i].type = "fasting"
                 /\ events[nh + i].description = fasts[i].description
                 /\ events[nh + i].tags = <<>>

\* C14 is exercised by an events list that starts with a holiday and goes
\* on with a fasting period.
C14_Witness ==
    /\ dayOut # <<>>
    /\ dayOut[1].op = "getDayEvents"
    /\ Len(dayOut[1].value.events) >= 2
    /\ dayOut[1].value.events[1].type = "holiday"
    /\ dayOut[1].value.events[Len(dayOut[1].value.events)].type = "fasting"


----------------------------------------------------------------------------
(* DayInfoService: the language of the results.                            *)

\* Is everything localized in the returned object o localized with lang?
\* (The weekly fast has a fixed English text when the library has no info.)
LocalizedWith(o, lang) ==
    LET info == IF o.op = "getDayEvents" THEN o.value.dayInfo ELSE o.value
        fromLibrary(f) == DayIn.lookup[f.key] # "null"
    IN /\ info.weekdayName = WEEKDAY_LABELS(lang)[info.weekday + 1]
       /\ \A i \in 1..Len(info.holidays) :
             /\ info.holidays[i].name[1] = lang
             /\ info.holidays[i].description[1] = lang
       /\ \A i \in 1..Len(info.fastingPeriods) :
             fromLibrary(info.fastingPeriods[i]) =>
                 /\ info.fastingPeriods[i].name[1] = lang
                 /\ info.fastingPeriods[i].description[1] = lang
       /\ o.op = "getDayEvents" =>
             \A i \in 1..Len(info.fastingPeriods) :
                 info.fastingPeriods[i].key # "TSOME_DIHENET" =>
                     o.value.events[Len(info.holidays) + i].title[1] =
                         IF lang = "amharic" THEN "Qen" ELSE "Day"

\* C15: updateLanguage(lang) leaves the objects returned before unchanged,
\* and every getDayInformation/getDayEvents call localizes what it returns
\* (weekday name, holiday and fasting texts) with the language of the last
\* updateLanguage.
C15_LanguageUpdate ==
    [][/\ (language' # language => dayOut' = dayOut)
       /\ ((language' = language /\ dayOut' # <<>>) =>
              LocalizedWith(dayOut'[1], language))]_vars

\* C15 is exercised by a call made after updateLanguage("english") on a day
\* with a holiday and a fast: what it returned is in English.
C15_Witness ==
    /\ language = "english"
    /\ dayOut # <<>>
    /\ LocalizedWith(dayOut[1], "english")
    /\ Len(LastDayInfo.holidays) > 0
    /\ Len(LastDayInfo.fastingPeriods) > 0


----------------------------------------------------------------------------
(* stignite: ReactiveState and StateManager.                               *)

\* The values a state holds are 0..MaxValue.
MaxValue == 1
StateValues == 0..MaxValue

\* The callbacks the components subscribe; the second one throws whenever
\* it is called.
Callbacks == {"onChange", "onChangeThrowing"}
CallbackThrows(cb) == cb = "onChangeThrowing"

\* A JavaScript Set, as the sequence of its elements in insertion order.
SetHas(seq, x) == \E i \in 1..Len(seq) : seq[i] = x
SetAdd(seq, x) == IF SetHas(seq, x) THEN seq ELSE Append(seq, x)
SetDelete(seq, x) == SelectSeq(seq, LAMBDA y : y # x)

\* getSnapshot(): what a callback reads from the manager when it runs.
getSnapshot(states) ==
    [k \in StateKeys |->
        IF states[k] = <<>> THEN Undefined ELSE Some(states[k][1].value)]

\* One invocation callback(value) by the state of key.
Invocation(cb, key, value, states) ==
    [callback |-> cb, key |-> key, value |-> value,
     seen |-> getSnapshot(states)]

\* notify(): every subscriber in turn; a throwing one does not stop it.
notify(states, key) ==
    LET subscribers == states[key][1].subscribers
    IN [i \in 1..Len(subscribers) |->
           Invocation(subscribers[i], key, states[key][1].value, states)]

\* set(value) without the comparison with the current value.
set_alwaysNotify(states, key, value) ==
    LET next == [states EXCEPT ![key] = <<[@[1] EXCEPT !.value = value]>>]
    IN [states |-> next, calls |-> notify(next, key)]

\* set(value) on the state of key: the states after it, and the callback
\* invocations it made.
set(states, key, value) ==
    IF states[key][1].value # value
    THEN LET next == [states EXCEPT
                         ![key] = <<[@[1] EXCEPT !.value = value]>>]
         IN [states |-> next, calls |-> notify(next, key)]
    ELSE [states |-> states, calls |-> <<>>]

\* batchUpdate(updates), updates being the entries <<key, value>> of the
\* object in their order: each existing state is set in turn.
RECURSIVE batchUpdate(_, _)
batchUpdate(states, updates) ==
    IF updates = <<>>
    THEN [states |-> states, calls |-> <<>>]
    ELSE LET key == Head(updates)[1]
             value == Head(updates)[2]
             first == IF states[key] = <<>>
                      THEN [states |-> states, calls |-> <<>>]
                      ELSE set(states, key, value)
             rest == batchUpdate(first.states, Tail(updates))
         IN [states |-> rest.states, calls |-> first.calls \o rest.calls]

\* The objects a caller passes to batchUpdate: one or both keys, in either
\* order of insertion.
BatchUpdates ==
    {<<<<k, v>>>> : k \in StateKeys, v \in StateValues}
    \cup {u \in {<<<<k1, v1>>, <<k2, v2>>>> :
                    k1 \in StateKeys, k2 \in StateKeys,
                    v1 \in StateValues, v2 \in StateValues} :
            u[1][1] # u[2][1]}

\* stateManager.createState(key, initialValue)
CreateState ==
    /\ \E key \in StateKeys, initialValue \in StateValues :
          rx' = IF rx.states[key] # <<>>
                THEN [rx EXCEPT !.calls = <<>>,
                                !.op = <<"createState.threw", key>>]
                ELSE [rx EXCEPT
                        !.states[key] = <<[value |-> initialValue,
                                           subscribers |-> <<>>]>>,
                        !.calls = <<>>,
                        !.op = <<"createState", key, initialValue>>]
    /\ UNCHANGED offReactive

\* state.subscribe(callback) on the state of key: when the callback
\* throws, the caller gets no unsubscribe function, but the callback is in
\* the Set already.
subscribe(r, key, cb) ==
    [r EXCEPT
       !.states[key] = <<[@[1] EXCEPT !.subscribers = SetAdd(@, cb)]>>,
       !.handles = IF CallbackThrows(cb) THEN @ ELSE @ \cup {<<key, cb>>},
       !.gone = @ \ {<<key, cb>>},
       !.calls = Append(@, Invocation(cb, key, r.states[key][1].value,
                                      r.states))]

\* The function subscribe(callback) returned for the state of key, called:
\* nothing happens when the manager has forgotten the state.
unsubscribe(r, key, cb) ==
    IF r.states[key] = <<>> THEN r
    ELSE [r EXCEPT
            !.states[key] =
                <<[@[1] EXCEPT !.subscribers = SetDelete(@, cb)]>>,
            !.gone = @ \cup {<<key, cb>>}]

\* state.subscribe(callback)
Subscribe ==
    /\ \E key \in StateKeys, cb \in Callbacks :
          /\ rx.states[key] # <<>>
          /\ rx' = [subscribe([rx EXCEPT !.calls = <<>>], key, cb) EXCEPT
                      !.op = <<"subscribe", key, cb>>]
    /\ UNCHANGED offReactive

\* The function subscribe returned, called (again, perhaps).
Unsubscribe ==
    /\ \E h \in rx.handles :
          rx' = [unsubscribe([rx EXCEPT !.calls = <<>>], h[1], h[2]) EXCEPT
                   !.op = <<"unsubscribe", h[1], h[2]>>]
    /\ UNCHANGED offReactive

\* state.set(value)
SetState ==
    /\ \E key \in StateKeys, value \in StateValues :
          /\ rx.states[key] # <<>>
          /\ LET done == set(rx.states, key, value)
             IN rx' = [rx EXCEPT !.states = done.states,
                                 !.calls = done.calls,
                                 !.op = <<"set", key, value>>]
    /\ UNCHANGED offReactive

\* stateManager.batchUpdate(updates)
BatchUpdate ==
    /\ \E updates \in BatchUpdates :
          LET done == batchUpdate(rx.states, updates)
          IN rx' = [rx EXCEPT !.states = done.states,
                              !.calls = done.calls,
                              !.op = <<"batchUpdate", updates>>]
    /\ UNCHANGED offReactive

\* stateManager.destroy(): the states are cleared and forgotten; the
\* unsubscribe functions handed out belong to the forgotten states.
DestroyStates ==
    /\ rx.op[1] # "new"
    /\ rx' = [NewStateManager EXCEPT !.op = <<"destroy">>]
    /\ UNCHANGED offReactive

ReactiveInit ==
    /\ GridIdle
    /\ DayIdle

ReactiveNext ==
    \/ CreateState
    \/ Subscribe
    \/ Unsubscribe
    \/ SetState
    \/ BatchUpdate
    \/ DestroyStates

ReactiveSpec == ReactiveInit /\ [][ReactiveNext]_vars


----------------------------------------------------------------------------
(* Properties of ReactiveState and StateManager.                           *)

\* The callbacks invoked by the last operation, in order.
Invoked(r) == [i \in 1..Len(r.calls) |-> r.calls[i].callback]

\* C17: subscribe(cb) invokes cb once, immediately, with the current value;
\* set(v) stores v and, exactly when v differs from the current value,
\* invokes every current subscriber once with v (nobody when v is the
\* current value); a callback whose unsubscribe function was called (and
\* which was not subscribed again) is not invoked by a set.
C17_SubscribeSetUnsubscribe ==
    [][LET op == rx'.op
           key == op[2]
           before == rx.states[key][1]
           after == rx'.states[key][1]
       IN /\ op[1] = "subscribe" =>
                /\ Invoked(rx') = <<op[3]>>
                /\ rx'.calls[1].value = before.value
                /\ after.value = before.value
                /\ SetHas(after.subscribers, op[3])
          /\ op[1] = "set" =>
                /\ after.value = op[3]
                /\ after.subscribers = before.subscribers
                /\ (op[3] # before.value =>
                       /\ Invoked(rx') = before.subscribers
                       /\ \A i \in 1..Len(rx'.calls) :
                             rx'.calls[i].value = op[3])
                /\ (op[3] = before.value => rx'.calls = <<>>)
                /\ \A i \in 1..Len(rx'.calls) :
                      <<key, rx'.calls[i].callback>> \notin rx.gone
          /\ op[1] = "unsubscribe" =>
                /\ ~SetHas(after.subscribers, op[3])
                /\ rx'.calls = <<>>
                /\ after.value = before.value]_vars

\* C17 is exercised by a set of a new value on a state that has a
\* subscriber, which is invoked with the value, and a callback that was
\* unsubscribed, which is not.
C17_Witness ==
    /\ rx.op[1] = "set"
    /\ Len(rx.calls) >= 1
    /\ rx.calls[1].value = rx.op[3]
    /\ \E cb \in Callbacks :
          /\ <<rx.op[2], cb>> \in rx.gone
          /\ ~SetHas(Invoked(rx), cb)

\* The states a batchUpdate call names and that exist.
Batched(r) ==
    {r.op[2][i][1] : i \in 1..Len(r.op[2])}
    \cap {k \in StateKeys : r.states[k] # <<>>}

\* C18: batchUpdate(updates) is atomic for the subscribers: every callback
\* it invokes sees each state named in updates with its new value already.
C18_BatchUpdateAtomic ==
    rx.op[1] = "batchUpdate" =>
        \A i \in 1..Len(rx.calls) :
            \A k \in Batched(rx) :
                rx.calls[i].seen[k] = Some(rx.states[k][1].value)


----------------------------------------------------------------------------
(* stignite: ComponentBase, its timers and its reactive settings.          *)

\* A component starts at most MaxTimers timers and registers at most
\* MaxCleanups cleanup functions of its own.
MaxTimers == 2
MaxCleanups == 1

\* The GSettings keys the reactive settings listen to.
SettingKeys == <<"position", "format">>

\* The cleanup functions of kind k registered so far.
CleanupsOf(c, k) == SelectSeq(c.cleanup, LAMBDA f : f.kind = k)

\* addCleanup(cleanup)
addCleanup(c, f) == [c EXCEPT !.cleanup = Append(@, f)]

\* addTimer(callback, intervalMs): GLib.timeout_add hands out a source id;
\* the cleanup removes that source.
addTimer(c) ==
    LET timerId == c.nextId
        started == [c EXCEPT !.sources = @ \cup {timerId},
                             !.nextId = @ + 1]
    IN addCleanup(started, [kind |-> "source_remove", id |-> timerId,
                            throws |-> FALSE])

\* ReactiveSetting.connect() / ReactiveComputed.connect(): one handler of
\* 'changed::<key>' for each key; its disconnect is pushed onto _cleanup
\* only when _cleanup is set at that moment (hasCleanup).
connect(c, name, keys, hasCleanup) ==
    LET handlerId(i) == c.nextId + i - 1
        connected ==
            [c EXCEPT
               !.handlers = @ \cup {[id |-> handlerId(i), key |-> keys[i],
                                     setting |-> name] :
                                       i \in 1..Len(keys)},
               !.nextId = @ + Len(keys)]
    IN IF hasCleanup
       THEN [connected EXCEPT
               !.cleanup = @ \o [i \in 1..Len(keys) |->
                                   [kind |-> "disconnect",
                                    id |-> handlerId(i),
                                    throws |-> FALSE]]]
       ELSE connected

\* addReactiveSetting(name, keys, defaults, updateFn): the constructor of
\* the setting calls connect() before setCleanup(this.cleanup) gives it the
\* component's cleanup list.
addReactiveSetting(c, name, keys) ==
    LET constructed == connect(c, name, keys, FALSE)
    IN [constructed EXCEPT !.reactiveSettings = @ \cup {name}]

\* One cleanup function, run.
runCleanup(c, f) ==
    CASE f.kind = "source_remove" -> [c EXCEPT !.sources = @ \ {f.id}]
      [] f.kind = "disconnect" ->
            [c EXCEPT !.handlers = {h \in @ : h.id # f.id}]
      [] OTHER -> c

\* cleanup.forEach with the try/catch inside the callback.
RECURSIVE runCleanups(_, _)
runCleanups(c, fs) ==
    IF fs = <<>> THEN c ELSE runCleanups(runCleanup(c, Head(fs)), Tail(fs))

\* cleanup.forEach without the try/catch: the first cleanup that throws
\* ends the loop.
RECURSIVE runCleanupsUntilThrow(_, _)
runCleanupsUntilThrow(c, fs) ==
    IF fs = <<>> \/ Head(fs).throws
    THEN c
    ELSE runCleanupsUntilThrow(runCleanup(c, Head(fs)), Tail(fs))

\* this.addTimer(callback, intervalMs), as StatusBarIndicator's
\* startTimeUpdate does.
AddTimer ==
    /\ ~comp.destroyed
    /\ Len(CleanupsOf(comp, "source_remove")) < MaxTimers
    /\ comp' = [addTimer(comp) EXCEPT !.op = <<"addTimer", comp.nextId>>]
    /\ UNCHANGED offComponent

\* this.addCleanup(f) with a function of the component's own, which may
\* throw when it is run.
AddCleanup ==
    /\ ~comp.destroyed
    /\ Len(CleanupsOf(comp, "custom")) < MaxCleanups
    /\ \E throws \in BOOLEAN :
          comp' = [addCleanup(comp, [kind |-> "custom", id |-> 0,
                                     throws |-> throws])
                      EXCEPT !.op = <<"addCleanup", throws>>]
    /\ UNCHANGED offComponent

\* this.addReactiveSetting(name, keys, ...): a ReactiveSetting for one key,
\* a ReactiveComputed for a list of keys.
AddReactiveSetting ==
    /\ ~comp.destroyed
    /\ \E name \in {"single", "computed"} :
          /\ name \notin comp.reactiveSettings
          /\ comp' = [addReactiveSetting(
                          comp, name,
                          IF name = "single"
                          THEN <<SettingKeys[1]>> ELSE SettingKeys)
                        EXCEPT !.op = <<"addReactiveSetting", name>>]
    /\ UNCHANGED offComponent

\* The event loop dispatches a timer source that is alive: its callback
\* runs and returns true.
TimerFires ==
    /\ \E timerId \in comp.sources :
          comp' = [comp EXCEPT !.op = <<"timer.fired", timerId>>]
    /\ UNCHANGED offComponent

\* The user changes a setting: GSettings emits 'changed::<key>' and every
\* handler connected for the key runs the update function of its setting.
SettingChanged ==
    /\ \E i \in 1..Len(SettingKeys) :
          comp' = [comp EXCEPT
                     !.op = <<"changed", SettingKeys[i],
                              {h.setting : h \in
                                  {g \in comp.handlers :
                                      g.key = SettingKeys[i]}}>>]
    /\ UNCHANGED offComponent

\* C16: when destroy() has run, every timer started through addTimer is
\* removed from the event loop, and no timer callback is invoked after it,
\* however many timers were added and whether or not a cleanup throws.
C16_TimersRemovedOnDestroy ==
    [][/\ (comp'.destroyed => comp'.sources = {})
       /\ (comp.destroyed => comp'.op[1] # "timer.fired")]_vars

\* C16 is exercised by a destroy() that ran the cleanup of a timer, then a
\* cleanup that throws, then the cleanup of a second timer.
C16_Witness ==
    /\ comp.destroyed
    /\ comp.op[1] = "destroy"
    /\ \E i, j, k \in 1..Len(comp.op[2]) :
          /\ i < j /\ j < k
          /\ comp.op[2][i].kind = "source_remove"
          /\ comp.op[2][j].throws
          /\ comp.op[2][k].kind = "source_remove"
    /\ comp.sources = {}

\* C19: after destroy(), every 'changed::<key>' handler connected by a
\* reactive setting made through addReactiveSetting is disconnected: a
\* later change of the setting invokes no update function.
C19_HandlersDisconnectedOnDestroy ==
    comp.destroyed =>
        /\ comp.handlers = {}
        /\ (comp.op[1] = "changed" => comp.op[3] = {})


----------------------------------------------------------------------------
(* stignite: EffectManager.                                                *)

\* The ids under which effects, timers and signals are registered, and the
\* number of ids the host hands out in a run.
EffectIds == {"clock", "popup"}
MaxHostIds == 1

\* A JavaScript Map from ids, as the sequence of its entries.
MapHas(m, id) == \E i \in 1..Len(m) : m[i].id = id
MapGet(m, id) == m[CHOOSE i \in 1..Len(m) : m[i].id = id]
MapSet(m, e) ==
    IF MapHas(m, e.id)
    THEN [i \in 1..Len(m) |-> IF m[i].id = e.id THEN e ELSE m[i]]
    ELSE Append(m, e)
MapDelete(m, id) == SelectSeq(m, LAMBDA e : e.id # id)
MapKeys(m) == [i \in 1..Len(m) |-> m[i].id]

\* An effect manager works on itself and, through the cleanups that are
\* unsubscribe functions, on the reactive states: w is the record [fx, rx].
\* An effect is [id, cleanup, unsubscribes]: whether it has a cleanup and
\* whether that throws, and, for the effect onStateChange registers, the
\* <<key, callback>> its cleanup unsubscribes (<<>> for any other effect).

\* An effect whose cleanup is not an unsubscribe function.
PlainEffect(id, cleanup) ==
    [id |-> id, cleanup |-> cleanup, unsubscribes |-> <<>>]

\* effect.cleanup(), run.
runEffectCleanup(r, effect) ==
    IF effect.unsubscribes = <<>> THEN r
    ELSE unsubscribe(r, effect.unsubscribes[1], effect.unsubscribes[2])

\* removeEffect(id): the cleanup of the effect, if it has one, is run (what
\* it throws is caught), and the entry is deleted.
removeEffect(w, id) ==
    IF MapHas(w.fx.effects, id)
    THEN LET effect == MapGet(w.fx.effects, id)
         IN IF effect.cleanup # "none"
            THEN [fx |-> [w.fx EXCEPT
                            !.events = Append(@, <<"cleanup", id>>),
                            !.effects = MapDelete(@, id)],
                  rx |-> runEffectCleanup(w.rx, effect)]
            ELSE [w EXCEPT !.fx.effects = MapDelete(@, id)]
    ELSE w

\* addEffect executing the new effect before it removes the previous one.
addEffect_executeFirst(w, effect) ==
    LET executed == [w EXCEPT
                       !.fx.events = Append(@, <<"execute", effect.id>>)]
        replaced == removeEffect(executed, effect.id)
    IN [replaced EXCEPT !.fx.effects = MapSet(@, effect)]

\* addEffect(effect)
addEffect(w, effect) ==
    LET replaced == removeEffect(w, effect.id)
    IN [replaced EXCEPT !.fx.effects = MapSet(@, effect),
                        !.fx.events = Append(@, <<"execute", effect.id>>)]

\* onStateChange(state, callback, effectId) for the state of key: the
\* subscription comes first, and what the callback throws in it leaves
\* onStateChange before an effect is registered.
onStateChange(w, key, callback, effectId) ==
    LET subscribed == [w EXCEPT !.rx = subscribe(@, key, callback)]
    IN IF CallbackThrows(callback)
       THEN [w |-> subscribed, threw |-> TRUE]
       ELSE [w |-> addEffect(subscribed,
                             [id |-> effectId, cleanup |-> "ok",
                              unsubscribes |-> <<key, callback>>]),
             threw |-> FALSE]

\* removeTimer(id)
removeTimer(f, id) ==
    IF MapHas(f.activeTimers, id)
    THEN [f EXCEPT !.sources = @ \ {MapGet(f.activeTimers, id).timerId},
                   !.activeTimers = MapDelete(@, id)]
    ELSE f

\* EffectManager.addTimer(id, callback, interval)
effectAddTimer(f, id) ==
    LET removed == removeTimer(f, id)
        timerId == removed.nextId
    IN [removed EXCEPT
          !.sources = @ \cup {timerId},
          !.nextId = @ + 1,
          !.activeTimers = MapSet(@, [id |-> id, timerId |-> timerId])]

\* disconnectSignal(id): the entry is deleted; the object is not told.
disconnectSignal(f, id) ==
    IF MapHas(f.activeSignals, id)
    THEN [f EXCEPT !.activeSignals = MapDelete(@, id)]
    ELSE f

\* connectSignal(object, signalName, callback, effectId)
connectSignal(f, id) ==
    LET forgotten == disconnectSignal(f, id)
        signalId == forgotten.nextId
    IN [forgotten EXCEPT
          !.connections = @ \cup {signalId},
          !.nextId = @ + 1,
          !.activeSignals = MapSet(@, [id |-> id, signalId |-> signalId])]

\* for (const [id] of map) remove(id), for the Map named by registry
RECURSIVE removeEach(_, _, _)
removeEach(w, ids, registry) ==
    IF ids = <<>>
    THEN w
    ELSE LET removed ==
                 CASE registry = "effects" -> removeEffect(w, Head(ids))
                   [] registry = "activeTimers" ->
                          [w EXCEPT !.fx = removeTimer(@, Head(ids))]
                   [] OTHER ->
                          [w EXCEPT !.fx = disconnectSignal(@, Head(ids))]
         IN removeEach(removed, Tail(ids), registry)

\* dispose()
dispose(w) ==
    LET effectsDone == removeEach(w, MapKeys(w.fx.effects), "effects")
        timersDone == removeEach(effectsDone, MapKeys(w.fx.activeTimers),
                                 "activeTimers")
        signalsDone == removeEach(timersDone, MapKeys(w.fx.activeSignals),
                                  "activeSignals")
    IN [signalsDone EXCEPT !.fx.effects = <<>>,
                           !.fx.activeTimers = <<>>,
                           !.fx.activeSignals = <<>>]

\* Every operation starts with an empty record of what it ran.
Fresh_fx == [fx EXCEPT !.events = <<>>]
Fresh_w == [fx |-> Fresh_fx, rx |-> [rx EXCEPT !.calls = <<>>]]

\* What the operations of the effect manager on effects leave alone.
offEffectsAndStates == <<gridVars, dayVars, calcVars, libVars, comp, extVars>>

\* effects.addEffect({id, execute, cleanup?})
AddEffect ==
    /\ \E id \in EffectIds, cleanup \in {"none", "ok", "throws"} :
          LET w == addEffect(Fresh_w, PlainEffect(id, cleanup))
          IN /\ fx' = [w.fx EXCEPT !.op = <<"addEffect", id>>]
             /\ rx' = w.rx
    /\ UNCHANGED offEffectsAndStates

\* effects.onStateChange(state, callback, effectId) with a state the
\* manager holds.
OnStateChange ==
    /\ \E key \in StateKeys, cb \in Callbacks, id \in EffectIds :
          /\ rx.states[key] # <<>>
          /\ LET done == onStateChange(Fresh_w, key, cb, id)
             IN /\ fx' = [done.w.fx EXCEPT
                            !.op = IF done.threw
                                   THEN <<"onStateChange.threw", id>>
                                   ELSE <<"addEffect", id>>]
                /\ rx' = [done.w.rx EXCEPT
                            !.op = <<"subscribe", key, cb>>]
    /\ UNCHANGED offEffectsAndStates

\* effects.removeEffect(id), directly or through a returned disposer
RemoveEffect ==
    /\ \E id \in EffectIds :
          LET w == removeEffect(Fresh_w, id)
          IN /\ fx' = [w.fx EXCEPT !.op = <<"removeEffect", id>>]
             /\ rx' = w.rx
    /\ UNCHANGED offEffectsAndStates

\* effects.addTimer(id, callback, interval)
EffectAddTimer ==
    /\ fx.nextId <= MaxHostIds
    /\ \E id \in EffectIds :
          fx' = [effectAddTimer(Fresh_fx, id)
                    EXCEPT !.op = <<"addTimer", id>>]
    /\ UNCHANGED offEffects

\* effects.removeTimer(id), directly or through a returned disposer
RemoveTimer ==
    /\ \E id \in EffectIds :
          fx' = [removeTimer(Fresh_fx, id)
                    EXCEPT !.op = <<"removeTimer", id>>]
    /\ UNCHANGED offEffects

\* effects.connectSignal(object, signalName, callback, id)
ConnectSignal ==
    /\ fx.nextId <= MaxHostIds
    /\ \E id \in EffectIds :
          fx' = [connectSignal(Fresh_fx, id)
                    EXCEPT !.op = <<"connectSignal", id>>]
    /\ UNCHANGED offEffects

\* effects.disconnectSignal(id), directly or through a returned disposer
DisconnectSignal ==
    /\ \E id \in EffectIds :
          fx' = [disconnectSignal(Fresh_fx, id)
                    EXCEPT !.op = <<"disconnectSignal", id>>]
    /\ UNCHANGED offEffects

\* The event loop dispatches a timer source that is alive; the source ends
\* when the callback throws (the wrapper returns false).
TimerDispatched ==
    /\ \E timerId \in fx.sources, throws \in BOOLEAN :
          fx' = [Fresh_fx EXCEPT
                   !.sources = IF throws THEN @ \ {timerId} ELSE @,
                   !.op = <<"timer.fired", timerId>>]
    /\ UNCHANGED offEffects

\* The object emits the signal: the callback of a connected handler runs.
SignalEmitted ==
    /\ \E signalId \in fx.connections :
          fx' = [Fresh_fx EXCEPT !.op = <<"signal.fired", signalId>>]
    /\ UNCHANGED offEffects

\* effects.dispose(); op keeps the registries as they were before it.
Dispose ==
    /\ LET w == dispose(Fresh_w)
       IN /\ fx' = [w.fx EXCEPT
                      !.op = <<"dispose",
                               [effects |-> fx.effects,
                                activeTimers |-> fx.activeTimers,
                                activeSignals |-> fx.activeSignals]>>]
          /\ rx' = w.rx
    /\ UNCHANGED offEffectsAndStates

\* The reactive state of the format is created before effects watch it.
EffectInit ==
    /\ inst = <<>>
    /\ result = <<>>
    /\ lastOp = <<"init">>
    /\ ticks = 0
    /\ language = "amharic"
    /\ dayIn = <<>>
    /\ dayOut = <<>>
    /\ calcOut = <<>>
    /\ holidayTable = "ok"
    /\ rx = [NewStateManager EXCEPT
               !.states["format"] = <<[value |-> 0, subscribers |-> <<>>]>>]
    /\ comp = NewComponent
    /\ fx = NewEffectManager
    /\ fmt = NoFormat
    /\ OrchestratorIdle

EffectNext ==
    \/ AddEffect
    \/ OnStateChange
    \/ RemoveEffect
    \/ EffectAddTimer
    \/ RemoveTimer
    \/ ConnectSignal
    \/ DisconnectSignal
    \/ TimerDispatched
    \/ SignalEmitted
    \/ Dispose

EffectSpec == EffectInit /\ [][EffectNext]_vars

\* C20: when dispose() has returned, the cleanup of every registered effect
\* that has one has been run, every timer is removed from the event loop,
\* every signal connected with connectSignal is disconnected from its
\* object, and the three registries are empty.
C20_DisposeCleansEverything ==
    fx.op[1] = "dispose" =>
        /\ \A i \in 1..Len(fx.op[2].effects) :
              fx.op[2].effects[i].cleanup # "none" =>
                  \E j \in 1..Len(fx.events) :
                      fx.events[j] = <<"cleanup", fx.op[2].effects[i].id>>
        /\ fx.sources = {}
        /\ fx.connections = {}
        /\ fx.effects = <<>>
        /\ fx.activeTimers = <<>>
        /\ fx.activeSignals = <<>>


-----------------------------------------------------------------------------
(***************************************************************************)
(* DateFormatterService (src/services/dateFormatter.ts).  A format string  *)
(* is a sequence of one-character strings; a formatted text is a sequence  *)
(* whose elements are the characters kept from the format string and, in   *)
(* place of every replaced token, the name of the value put there.         *)
(***************************************************************************)

\* The longest format string given to the service.
MaxFormatLen == 4

\* The characters format strings are written with: letters of the tokens
\* dd, mm, m, hh and h, a letter of no token, the underscore and the blank.
FormatChars == {"d", "m", "h", "x", "_", " "}

Letters == {"a", "d", "e", "h", "m", "n", "p", "r", "t", "u", "x", "y"}
Digits == {"0", "1", "2", "3", "4", "5", "6", "7", "8", "9"}
\* What a regular expression's \w matches and \b tells apart from the rest.
WordChars == Letters \cup Digits \cup {"_"}

FormatStrings == UNION {[1..n -> FormatChars] : n \in 0..MaxFormatLen}

\* The alternatives of the token expression, in the order it lists them.
TokenList ==
    << <<"d", "n", "u", "m">>, <<"d", "d", "a", "y">>, <<"d", "d">>,
       <<"m", "n", "u", "m">>, <<"m", "n", "a", "m">>,
       <<"y", "e", "a", "r">>, <<"t", "p">>, <<"h", "h">>, <<"h">>,
       <<"m", "m">>, <<"m">> >>

\* What String(tokenValues[token]) stands for in a formatted text.
TokenValueNames ==
    <<"{dnum}", "{dday}", "{dd}", "{mnum}", "{mnam}", "{year}", "{tp}",
      "{hh}", "{h}", "{mm}", "{m}">>

validTokens == {TokenList[k] : k \in DOMAIN TokenList}

\* \b between the characters p-1 and p of s: exactly one side is a word
\* character, the ends of the string counting as a side that is not.
IsWordAt(s, q) == q \in 1..Len(s) /\ s[q] \in WordChars
wordBoundary(s, p) == IsWordAt(s, p - 1) # IsWordAt(s, p)

\* /\b[a-zA-Z]+\b/ tried at position i: the end of the longest run of letters
\* from i that has a boundary on both sides, i - 1 when there is none.
lettersMatchEnd(s, i) ==
    LET ends == {j \in i..Len(s) :
                    /\ wordBoundary(s, i)
                    /\ \A q \in i..j : s[q] \in Letters
                    /\ wordBoundary(s, j + 1)}
    IN IF ends = {} THEN i - 1
       ELSE CHOOSE j \in ends : \A k \in ends : k <= j

\* formatString.match(/\b[a-zA-Z]+\b/g) || [], scanning from position i.
RECURSIVE lettersMatches(_, _)
lettersMatches(s, i) ==
    IF i > Len(s) THEN <<>>
    ELSE LET j == lettersMatchEnd(s, i)
         IN IF j >= i THEN <<SubSeq(s, i, j)>> \o lettersMatches(s, j + 1)
            ELSE lettersMatches(s, i + 1)

\* /\b(dnum|dday|...|m)\b/ tried at position i: the index of the first
\* alternative that is found at i between two boundaries, 0 when none is.
tokenMatchAt(s, i) ==
    LET hits == {k \in DOMAIN TokenList :
                    /\ i + Len(TokenList[k]) - 1 <= Len(s)
                    /\ SubSeq(s, i, i + Len(TokenList[k]) - 1) = TokenList[k]
                    /\ wordBoundary(s, i)
                    /\ wordBoundary(s, i + Len(TokenList[k]))}
    IN IF hits = {} THEN 0
       ELSE CHOOSE k \in hits : \A h \in hits : k <= h

\* formatString.match(tokenRegex), scanning from position i.
RECURSIVE tokenMatches(_, _)
tokenMatches(s, i) ==
    IF i > Len(s) THEN <<>>
    ELSE LET k == tokenMatchAt(s, i)
         IN IF k # 0
            THEN <<TokenList[k]>> \o tokenMatches(s, i + Len(TokenList[k]))
            ELSE tokenMatches(s, i + 1)

\* [...new Set(matches)]: the first occurrence of each match, in order.
RECURSIVE uniqueMatches(_)
uniqueMatches(ms) ==
    IF ms = <<>> THEN <<>>
    ELSE LET front == uniqueMatches(SubSeq(ms, 1, Len(ms) - 1))
             last == ms[Len(ms)]
         IN IF \E q \in DOMAIN front : front[q] = last THEN front
            ELSE Append(front, last)

\* replaceTokens: every match of the token expression gives way to its
\* value, every other character stays.
RECURSIVE replaceTokens(_, _)
replaceTokens(s, i) ==
    IF i > Len(s) THEN <<>>
    ELSE LET k == tokenMatchAt(s, i)
         IN IF k # 0
            THEN <<TokenValueNames[k]>>
                     \o replaceTokens(s, i + Len(TokenList[k]))
            ELSE <<s[i]>> \o replaceTokens(s, i + 1)

\* format(formatString, date).
format(formatString) ==
    IF formatString = <<>> THEN <<>>
    ELSE replaceTokens(formatString, 1)

\* The tokens validateFormat finds unknown among the matches ms.
unknownTokens(ms) == SelectSeq(ms, LAMBDA t : t \notin validTokens)

\* validateFormat(formatString).
validateFormat(formatString) ==
    IF formatString = <<>>
    THEN [isValid |-> FALSE,
          errors |-> << <<"Format string must be a non-empty string">> >>]
    ELSE LET allTokens == lettersMatches(formatString, 1)
             unknown == unknownTokens(allTokens)
             errors == IF Len(unknown) > 0
                       THEN << <<"Unknown tokens", unknown>> >>
                       ELSE <<>>
         IN [isValid |-> Len(errors) = 0, errors |-> errors]

\* testFormat(formatString).
testFormat(formatString) ==
    LET validation == validateFormat(formatString)
    IN [isValid |-> validation.isValid,
        errors |-> validation.errors,
        preview |-> IF validation.isValid THEN format(formatString)
                    ELSE <<>>,
        tokens |-> IF validation.isValid
                   THEN uniqueMatches(tokenMatches(formatString, 1))
                   ELSE <<>>]

ValidateFormat ==
    /\ fmt' = [fmt EXCEPT !.out =
                 <<[op |-> "validateFormat"] @@ validateFormat(fmt.in)>>]
    /\ UNCHANGED offFormat

TestFormat ==
    /\ fmt' = [fmt EXCEPT !.out =
                 <<[op |-> "testFormat"] @@ testFormat(fmt.in)>>]
    /\ UNCHANGED offFormat

Format ==
    /\ fmt' = [fmt EXCEPT !.out =
                 <<[op |-> "format", text |-> format(fmt.in)]>>]
    /\ UNCHANGED offFormat

FormatInit ==
    /\ GridIdle
    /\ language = "amharic"
    /\ dayIn = <<>>
    /\ dayOut = <<>>
    /\ calcOut = <<>>
    /\ holidayTable = "ok"
    /\ StigniteIdle
    /\ OrchestratorIdle
    /\ fmt \in {[in |-> f, out |-> <<>>] : f \in FormatStrings}

FormatNext == ValidateFormat \/ TestFormat \/ Format

FormatSpec == FormatInit /\ [][FormatNext]_vars

\* The words of a format string: its longest runs of word characters that
\* hold a letter.
Words(f) ==
    {SubSeq(f, i, j) : <<i, j>> \in
        {ij \in (1..Len(f)) \X (1..Len(f)) :
            /\ ij[1] <= ij[2]
            /\ \A q \in ij[1]..ij[2] : f[q] \in WordChars
            /\ \E q \in ij[1]..ij[2] : f[q] \in Letters
            /\ ~IsWordAt(f, ij[1] - 1)
            /\ ~IsWordAt(f, ij[2] + 1)}}

\* C21: validating a non-empty format string that contains a word which is
\* not one of the eleven tokens gives isValid = FALSE and at least one error,
\* validating one whose words are all tokens gives isValid = TRUE, and
\* testFormat gives a non-empty preview only with isValid = TRUE.
C21_UnknownWordsRejected ==
    (/\ fmt.out # <<>>
     /\ fmt.in # <<>>
     /\ fmt.out[1].op \in {"validateFormat", "testFormat"})
    => LET r == fmt.out[1]
       IN /\ (\E w \in Words(fmt.in) : w \notin validTokens)
                 => (~r.isValid /\ r.errors # <<>>)
          /\ (\A w \in Words(fmt.in) : w \in validTokens) => r.isValid
          /\ (r.op = "testFormat" /\ r.preview # <<>>) => r.isValid

-----------------------------------------------------------------------------
(***************************************************************************)
(* UpdateOrchestrator (src/stignite/ComponentBase.ts).  render is what a   *)
(* subclass makes of it: it returns, it throws, or it changes a setting    *)
(* and so calls notifySettingChanged while the batch is being processed.   *)
(***************************************************************************)

ComponentIds == {"clock", "grid", "popup"}

\* The highest updatePriority a component is configured with.
MaxPriority == 1

\* The longest queue left behind that a notification is still sent to.
MaxPending == 2

\* What each component's render does.
RenderOf == [clock |-> "notifies", grid |-> "throws", popup |-> "ok"]

\* The setting a notifying render changes, and the value it gives it.
NestedChange == <<"format", 0>>

\* The keys of each component's dependencies object.
DependenciesOf ==
    [clock |-> {"position", "format"}, grid |-> {"position"},
     popup |-> {"position", "format"}]

\* The components @ReactiveComponent(config) constructs.
ComponentConfigs ==
    {[id |-> id, updatePriority |-> p, dependencies |-> DependenciesOf[id],
      renders |-> RenderOf[id]] :
        id \in ComponentIds, p \in 0..MaxPriority}

\* registerComponent(component).
registerComponent(o, component) ==
    [o EXCEPT
       !.componentRegistry = MapSet(@, component),
       !.dependencyGraph =
           [k \in DependencyKeys |->
              IF k \in component.dependencies
              THEN SetAdd(o.dependencyGraph[k], component.id)
              ELSE o.dependencyGraph[k]]]

\* unregisterComponent(componentId).
unregisterComponent(o, componentId) ==
    [o EXCEPT
       !.componentRegistry = MapDelete(@, componentId),
       !.dependencyGraph =
           [k \in DependencyKeys |-> SetDelete(o.dependencyGraph[k],
                                               componentId)]]

\* updateQueue.sort((a, b) => b.priority - a.priority): higher priority
\* first, updates of equal priority in the order they had.
RECURSIVE sortByPriority(_)
sortByPriority(queue) ==
    IF queue = <<>> THEN <<>>
    ELSE LET top == CHOOSE p \in {queue[i].priority : i \in DOMAIN queue} :
                        \A i \in DOMAIN queue : queue[i].priority <= p
         IN SelectSeq(queue, LAMBDA u : u.priority = top)
                \o sortByPriority(SelectSeq(queue,
                                            LAMBDA u : u.priority # top))

\* The update infos notifySettingChanged pushes for the affected components
\* that are in the registry.
updateInfos(o, affectedComponents, settingKey, newValue) ==
    LET present == SelectSeq(affectedComponents,
                             LAMBDA id : MapHas(o.componentRegistry, id))
    IN [i \in 1..Len(present) |->
          [componentId |-> present[i],
           changes |-> <<settingKey, newValue>>,
           priority |-> MapGet(o.componentRegistry,
                               present[i]).updatePriority]]

RECURSIVE notifySettingChanged(_, _, _)

\* component.render({changes, affectedParts, priority}): the orchestrator
\* after the call, and whether the call threw.
render(o, component, updateInfo) ==
    LET called == [o EXCEPT !.renders =
                      Append(@, [componentId |-> updateInfo.componentId,
                                 changes |-> updateInfo.changes,
                                 priority |-> updateInfo.priority,
                                 threw |-> component.renders = "throws"])]
    IN CASE component.renders = "ok" -> [o |-> called, threw |-> FALSE]
         [] component.renders = "throws" -> [o |-> called, threw |-> TRUE]
         [] component.renders = "notifies" ->
                [o |-> notifySettingChanged(called, NestedChange[1],
                                           NestedChange[2]),
                 threw |-> FALSE]

\* The loop over currentBatch from its i-th update on; with catching, what
\* a render throws is logged and the loop goes on.
RECURSIVE renderEach(_, _, _, _)
renderEach(o, currentBatch, i, catching) ==
    IF i > Len(currentBatch) THEN [o |-> o, completed |-> TRUE]
    ELSE IF ~MapHas(o.componentRegistry, currentBatch[i].componentId)
         THEN renderEach(o, currentBatch, i + 1, catching)
         ELSE LET r == render(o, MapGet(o.componentRegistry,
                                        currentBatch[i].componentId),
                              currentBatch[i])
              IN IF r.threw /\ ~catching
                 THEN [o |-> r.o, completed |-> FALSE]
                 ELSE renderEach(r.o, currentBatch, i + 1, catching)

\* The loop without its try/catch.
processBatch_noCatch(o, currentBatch) ==
    renderEach(o, currentBatch, 1, FALSE)

\* for (const updateInfo of currentBatch) { try { render } catch { log } }.
processBatch(o, currentBatch) == renderEach(o, currentBatch, 1, TRUE)

\* The queue taken as it is, without the sort.
currentBatchOf_unsorted(queue) == queue

\* The batch processUpdateQueue makes of the queue.
currentBatchOf(queue) == sortByPriority(queue)

\* processUpdateQueue(): an async function without await, so it runs to its
\* end inside the call and what it throws rejects its promise.
processUpdateQueue(o) ==
    IF o.isProcessing \/ Len(o.updateQueue) = 0 THEN o
    ELSE LET currentBatch == currentBatchOf(o.updateQueue)
             started == [o EXCEPT
                           !.isProcessing = TRUE,
                           !.updateQueue = <<>>,
                           !.batches = Append(@, [queue |-> o.updateQueue,
                                                  batch |-> currentBatch])]
             r == processBatch(started, currentBatch)
         IN IF r.completed THEN [r.o EXCEPT !.isProcessing = FALSE]
            ELSE [r.o EXCEPT !.rejected = TRUE]

\* notifySettingChanged(settingKey, newValue).
notifySettingChanged(o, settingKey, newValue) ==
    LET affectedComponents == o.dependencyGraph[settingKey]
    IN IF Len(affectedComponents) = 0 THEN o
       ELSE processUpdateQueue(
                [o EXCEPT !.updateQueue =
                    @ \o updateInfos(o, affectedComponents, settingKey,
                                     newValue)])

\* The orchestrator at the start of an operation.
Fresh_orch == [orch EXCEPT !.renders = <<>>, !.batches = <<>>,
                           !.rejected = FALSE]

RegisterComponent ==
    \E c \in ComponentConfigs :
        /\ orch' = [registerComponent(Fresh_orch, c) EXCEPT
                      !.op = <<"registerComponent", c.id>>]
        /\ UNCHANGED offOrchestrator

UnregisterComponent ==
    \E id \in ComponentIds :
        /\ orch' = [unregisterComponent(Fresh_orch, id) EXCEPT
                      !.op = <<"unregisterComponent", id>>]
        /\ UNCHANGED offOrchestrator

NotifySettingChanged ==
    \E k \in DependencyKeys, v \in 0..MaxValue :
        /\ Len(orch.updateQueue) <= MaxPending
        /\ orch' = [notifySettingChanged(Fresh_orch, k, v) EXCEPT
                      !.op = <<"notifySettingChanged", k, v>>]
        /\ UNCHANGED offOrchestrator

\* A render call as the update it was made with.
UpdateOf(call) ==
    [componentId |-> call.componentId, changes |-> call.changes,
     priority |-> call.priority]

\* The updates of a batch whose component is registered.
Registered(batch) ==
    SelectSeq(batch, LAMBDA u : MapHas(orch.componentRegistry, u.componentId))

\* C22: the render calls of a batch are made in non-increasing order of the
\* priority their updates were enqueued with, whatever the components and
\* the order they were registered in.
C22_RenderOrderByPriority ==
    /\ \A i, j \in DOMAIN orch.renders :
           i < j => orch.renders[i].priority >= orch.renders[j].priority
    /\ \A i \in DOMAIN orch.renders :
           /\ Len(orch.batches) = 1
           /\ \E q \in DOMAIN orch.batches[1].queue :
                  orch.batches[1].queue[q] = UpdateOf(orch.renders[i])

\* A batch of three or more updates that were not queued in priority order
\* has been rendered.
C22_Witness ==
    /\ orch.op[1] = "notifySettingChanged"
    /\ Len(orch.renders) >= 3
    /\ Len(orch.batches) = 1
    /\ orch.batches[1].queue # orch.batches[1].batch
    /\ orch.renders[1].priority > orch.renders[Len(orch.renders)].priority

\* C23: a render that throws while a batch is processed is caught: every
\* update of the batch is rendered, in the batch's order, the promise of
\* processUpdateQueue is not rejected, and isProcessing is FALSE when the
\* notification returns.
C23_RenderErrorsContained ==
    /\ ~orch.isProcessing
    /\ ~orch.rejected
    /\ \A b \in DOMAIN orch.batches :
           /\ Len(orch.renders) = Len(Registered(orch.batches[b].batch))
           /\ \A i \in DOMAIN orch.renders :
                  UpdateOf(orch.renders[i])
                      = Registered(orch.batches[b].batch)[i]

\* A render threw and a later update of the same batch was rendered.
C23_Witness ==
    /\ orch.op[1] = "notifySettingChanged"
    /\ \E i, j \in DOMAIN orch.renders :
           /\ i < j
           /\ orch.renders[i].threw
           /\ ~orch.renders[j].threw

\* C26: every update notifySettingChanged enqueues for a component that
\* stays registered is rendered without a further setting change, also when
\* it is enqueued by a render while a batch is processed; so the queue is
\* empty whenever the orchestrator is not processing.
C26_QueueEmptyWhenIdle ==
    ~orch.isProcessing => orch.updateQueue = <<>>

-----------------------------------------------------------------------------
(***************************************************************************)
(* ExtensionBase (src/stignite/ExtensionBase.ts) over the orchestrator.    *)
(* An extension and the orchestrator it notifies are the record            *)
(* [ext, orch].  Gio.Settings emits 'changed' inside the write that        *)
(* changes a value; for a write of the value already stored it is the      *)
(* backend that decides whether 'changed' is emitted.                      *)
(***************************************************************************)

\* The 'changed' handler setupSettingMonitoring connects, called with key.
settingMonitor(eo, key) ==
    IF key \notin eo.ext.schema THEN eo
    ELSE LET value == eo.ext.settings[key]
         IN [ext |-> [eo.ext EXCEPT !.notified = Append(@, <<key, value>>)],
             orch |-> notifySettingChanged(eo.orch, key, value)]

\* What the backend may do about 'changed' in a write of value under key.
ChangedEmitted(eo, key, value) ==
    IF eo.ext.settings[key] # value THEN {TRUE} ELSE BOOLEAN

\* settings.set_int(key, value): emitted says whether the backend emits
\* 'changed'; the monitor hears it while it is connected.
set_int(eo, key, value, emitted) ==
    LET written == [eo EXCEPT !.ext.settings[key] = value]
    IN IF emitted /\ eo.ext.monitor
       THEN settingMonitor(written, key)
       ELSE written

\* setSetting(key, value).
setSetting(eo, key, value, emitted) ==
    LET written == set_int(eo, key, value, emitted)
    IN [ext |-> [written.ext EXCEPT !.notified = Append(@, <<key, value>>)],
        orch |-> notifySettingChanged(written.orch, key, value)]

\* The extension and the orchestrator at the start of an operation.
Fresh_eo == [ext |-> [ext EXCEPT !.notified = <<>>], orch |-> Fresh_orch]

\* setSetting(k, v) by the extension; op keeps whether the stored value
\* changed and how many updates were queued before the call.
SetSetting ==
    \E k \in DependencyKeys, v \in 0..MaxValue :
        /\ Len(orch.updateQueue) <= MaxPending
        /\ \E emitted \in ChangedEmitted(Fresh_eo, k, v) :
              LET eo == setSetting(Fresh_eo, k, v, emitted)
              IN /\ ext' = [eo.ext EXCEPT
                              !.op = <<"setSetting", k, v,
                                       ext.settings[k] # v,
                                       Len(orch.updateQueue)>>]
                 /\ orch' = [eo.orch EXCEPT
                               !.op = <<"notifySettingChanged", k, v>>]
        /\ UNCHANGED offExtension

\* The preferences window writes a value under k.
ChangedOutside ==
    \E k \in DependencyKeys, v \in 0..MaxValue :
        /\ Len(orch.updateQueue) <= MaxPending
        /\ \E emitted \in ChangedEmitted(Fresh_eo, k, v) :
              LET eo == set_int(Fresh_eo, k, v, emitted)
              IN /\ ext' = [eo.ext EXCEPT !.op = <<"changed", k, v>>]
                 /\ orch' = [eo.orch EXCEPT !.op = <<"changed", k, v>>]
        /\ UNCHANGED offExtension

\* The orchestrator after the components of a list have been registered.
RECURSIVE registerAll(_)
registerAll(components) ==
    IF components = <<>> THEN NewOrchestrator
    ELSE registerComponent(registerAll(SubSeq(components, 1,
                                              Len(components) - 1)),
                           components[Len(components)])

\* The lists of components with different ids, in every order.
ComponentLists ==
    {cs \in UNION {[1..n -> ComponentConfigs] :
                       n \in 0..Cardinality(ComponentIds)} :
        \A i, j \in DOMAIN cs : i # j => cs[i].id # cs[j].id}

\* How often a component was rendered with a change in the last operation.
RenderCount(id, change) ==
    Cardinality({i \in DOMAIN orch.renders :
                    /\ orch.renders[i].componentId = id
                    /\ orch.renders[i].changes = change})

\* C27: a setSetting(key, value) that changes the stored value notifies the
\* orchestrator once, and, nothing having been left in the queue, every
\* registered component that depends on key is rendered once with the
\* change.
C27_SetSettingNotifiesOnce ==
    (ext.op[1] = "setSetting" /\ ext.op[4])
    => /\ Len(ext.notified) = 1
       /\ ext.op[5] = 0
              => \A i \in DOMAIN orch.componentRegistry :
                     LET c == orch.componentRegistry[i]
                     IN ext.op[2] \in c.dependencies
                        => RenderCount(c.id, <<ext.op[2], ext.op[3]>>) = 1

-----------------------------------------------------------------------------
\* The positions in a sequence of events of those about an effect id.
EventsAbout(events, id) == {i \in DOMAIN events : events[i][2] = id}

\* C24: addEffect with an id that is registered runs the previous effect's
\* cleanup and then executes the new effect; an effect is cleaned up only
\* after it was executed, and it is registered no more after its cleanup,
\* so that no addEffect, removeEffect, disposer call or dispose can run
\* the cleanup a second time.
C24_CleanupOnceAfterExecute ==
    [][LET events == fx'.events
       IN /\ \A i \in DOMAIN events :
                 LET id == events[i][2]
                     before == {j \in EventsAbout(events, id) : j < i}
                     after == {j \in EventsAbout(events, id) : j > i}
                 IN events[i][1] = "cleanup"
                    => /\ IF before = {}
                          THEN /\ MapHas(fx.effects, id)
                               /\ MapGet(fx.effects, id).cleanup # "none"
                          ELSE \A j \in before : events[j][1] = "execute"
                       /\ IF after = {}
                          THEN ~MapHas(fx'.effects, id)
                          ELSE \A j \in after : events[j][1] = "execute"
          /\ \A id \in EffectIds :
                 (fx'.op = <<"addEffect", id>>)
                 => /\ MapHas(fx'.effects, id)
                    /\ events # <<>>
                    /\ events[Len(events)] = <<"execute", id>>
                    /\ (MapHas(fx.effects, id)
                        /\ MapGet(fx.effects, id).cleanup # "none")
                           => events = << <<"cleanup", id>>,
                                          <<"execute", id>> >>
          /\ \A id \in EffectIds :
                 (MapHas(fx'.effects, id) /\ ~MapHas(fx.effects, id))
                 => fx'.op = <<"addEffect", id>>
      ]_vars

\* An effect with a cleanup has been replaced by addEffect under its id.
C24_Witness ==
    /\ fx.op[1] = "addEffect"
    /\ fx.events = << <<"cleanup", fx.op[2]>>, <<"execute", fx.op[2]>> >>
    /\ MapHas(fx.effects, fx.op[2])

-----------------------------------------------------------------------------
(***************************************************************************)
(* ComponentBase events: emit, connect, disconnect                         *)
(* (src/stignite/ComponentBase.ts).                                        *)
(***************************************************************************)

\* The callbacks connected as listeners; "broken" throws when called.
Listeners == {"onSelect", "onClose", "broken"}
Throws(callback) == callback = "broken"

\* The number of connect calls in a run.
MaxConnects == 3

\* connect(eventName, callback).
connectListener(b, eventName, callback) ==
    [b EXCEPT !.eventListeners[eventName] = Append(@, callback),
              !.cleanup = Append(@, <<eventName, callback>>)]

\* disconnect(eventName, callback): the first occurrence is spliced out.
disconnect(b, eventName, callback) ==
    LET listeners == b.eventListeners[eventName]
        found == {i \in DOMAIN listeners : listeners[i] = callback}
    IN IF found = {} THEN b
       ELSE LET index == CHOOSE i \in found : \A j \in found : i <= j
            IN [b EXCEPT !.eventListeners[eventName] =
                   SubSeq(listeners, 1, index - 1)
                       \o SubSeq(listeners, index + 1, Len(listeners))]

\* listeners.forEach(callback => callback(data)) from the i-th listener on;
\* with catching, what a listener throws is logged and the loop goes on.
RECURSIVE callEach(_, _, _, _, _)
callEach(b, listeners, data, i, catching) ==
    IF i > Len(listeners) THEN [b |-> b, threw |-> FALSE]
    ELSE LET called == [b EXCEPT !.calls =
                           Append(@, [callback |-> listeners[i],
                                      data |-> data,
                                      threw |-> Throws(listeners[i])])]
         IN IF Throws(listeners[i]) /\ ~catching
            THEN [b |-> called, threw |-> TRUE]
            ELSE callEach(called, listeners, data, i + 1, catching)

\* emit without the try/catch around each listener.
emit_noCatch(b, eventName, data) ==
    callEach(b, b.eventListeners[eventName], data, 1, FALSE)

\* emit(eventName, data): the component after the call and whether the
\* call threw.
emit(b, eventName, data) ==
    callEach(b, b.eventListeners[eventName], data, 1, TRUE)

\* The component at the start of an operation.
Fresh_bus == [bus EXCEPT !.calls = <<>>]

Connect ==
    \E e \in EventNames, cb \in Listeners :
        /\ Len(bus.cleanup) < MaxConnects
        /\ bus' = [connectListener(Fresh_bus, e, cb) EXCEPT
                     !.op = <<"connect", e, cb>>]
        /\ UNCHANGED offEvents

Disconnect ==
    \E e \in EventNames, cb \in Listeners :
        /\ bus' = [disconnect(Fresh_bus, e, cb) EXCEPT
                     !.op = <<"disconnect", e, cb>>]
        /\ UNCHANGED offEvents

Emit ==
    \E e \in EventNames, data \in 0..MaxValue :
        /\ LET r == emit(Fresh_bus, e, data)
           IN bus' = [r.b EXCEPT !.op = <<"emit", e, data, r.threw>>]
        /\ UNCHANGED offEvents

\* C25: emit calls every listener connected to the event, in the order of
\* connection, each with the data; a listener that throws does not stop
\* the later ones and emit does not throw; with no listener nothing is
\* called.
C25_EmitCallsEveryListener ==
    bus.op[1] = "emit"
    => LET listeners == bus.eventListeners[bus.op[2]]
       IN /\ Len(bus.calls) = Len(listeners)
          /\ \A i \in DOMAIN listeners :
                 /\ bus.calls[i].callback = listeners[i]
                 /\ bus.calls[i].data = bus.op[3]
          /\ ~bus.op[4]

\* An event has been emitted to a listener that throws and to one connected
\* after it.
C25_Witness ==
    /\ bus.op[1] = "emit"
    /\ \E i, j \in DOMAIN bus.calls :
           /\ i < j
           /\ bus.calls[i].threw
           /\ bus.calls[j].callback # bus.calls[i].callback

-----------------------------------------------------------------------------
(***************************************************************************)
(* ComponentBase.destroy and the ReactiveComponent decorator               *)
(* (src/stignite/ComponentBase.ts).  A component lives among the           *)
(* orchestrator it registers with and the listeners connected to its       *)
(* events: w is the record [comp, orch, bus].  The disconnect functions    *)
(* connect() added are in the component's cleanup list with its other      *)
(* cleanup functions; none of them depends on another.                     *)
(***************************************************************************)

\* The cleanup functions connect() added, run one after another.
RECURSIVE disconnectEach(_, _)
disconnectEach(b, fs) ==
    IF fs = <<>> THEN b
    ELSE disconnectEach(disconnect(b, Head(fs)[1], Head(fs)[2]), Tail(fs))

\* registerWithOrchestrator() at the end of the decorated constructor,
\* which has set componentId, dependencies and updatePriority from config.
registerWithOrchestrator(w, config) ==
    [w EXCEPT
       !.comp.componentId = config.id,
       !.orch = IF config.dependencies # {}
                THEN registerComponent(@, config)
                ELSE @]

\* destroy() without the try/catch around each cleanup: the first cleanup
\* that throws ends it.
destroy_noCatch(w) ==
    [comp |-> [runCleanupsUntilThrow(w.comp, w.comp.cleanup) EXCEPT
                 !.reactiveSettings = {},
                 !.destroyed = TRUE],
     orch |-> unregisterComponent(w.orch, w.comp.componentId),
     bus |-> IF \E i \in DOMAIN w.comp.cleanup : w.comp.cleanup[i].throws
             THEN w.bus
             ELSE [disconnectEach(w.bus, w.bus.cleanup) EXCEPT
                     !.cleanup = <<>>]]

\* destroy()
destroy(w) ==
    [comp |-> [runCleanups(w.comp, w.comp.cleanup) EXCEPT
                 !.reactiveSettings = {},
                 !.cleanup = <<>>,
                 !.destroyed = TRUE],
     orch |-> unregisterComponent(w.orch, w.comp.componentId),
     bus |-> [disconnectEach(w.bus, w.bus.cleanup) EXCEPT !.cleanup = <<>>]]

\* The component, the orchestrator and the listeners at the start of an
\* operation of the component.
Fresh_w3 == [comp |-> comp, orch |-> Fresh_orch, bus |-> Fresh_bus]

\* What the operations of a component on the three leave alone.
offDestroy == <<gridVars, dayVars, calcVars, libVars, rx, fx, fmt, ext, grid>>

\* new Component(...) of a class decorated with @ReactiveComponent(config)
RegisterWithOrchestrator ==
    /\ comp.componentId = ""
    /\ ~comp.destroyed
    /\ \E config \in ComponentConfigs :
          LET w == registerWithOrchestrator(Fresh_w3, config)
          IN /\ comp' = [w.comp EXCEPT
                           !.op = <<"registerWithOrchestrator", config.id>>]
             /\ orch' = [w.orch EXCEPT
                           !.op = <<"registerComponent", config.id>>]
    /\ UNCHANGED <<offDestroy, bus>>

\* super.destroy(): what ComponentBase.destroy() does to the three.
ComponentDestroyed ==
    LET w == destroy(Fresh_w3)
    IN /\ comp' = [w.comp EXCEPT !.op = <<"destroy", comp.cleanup>>]
       /\ orch' = [w.orch EXCEPT
                     !.op = <<"unregisterComponent", comp.componentId>>]
       /\ bus' = [w.bus EXCEPT !.op = <<"destroy">>]

\* component.destroy()
Destroy ==
    /\ ComponentDestroyed
    /\ UNCHANGED offDestroy

ComponentInit ==
    /\ GridIdle
    /\ DayIdle

ComponentNext ==
    \/ RegisterWithOrchestrator
    \/ AddTimer
    \/ AddCleanup
    \/ AddReactiveSetting
    \/ TimerFires
    \/ SettingChanged
    \/ Destroy

ComponentSpec == ComponentInit /\ [][ComponentNext]_vars

OrchestratorInit == GridIdle /\ DayIdle

OrchestratorNext ==
    \/ RegisterComponent
    \/ UnregisterComponent
    \/ NotifySettingChanged
    \/ RegisterWithOrchestrator
    \/ Destroy

OrchestratorSpec == OrchestratorInit /\ [][OrchestratorNext]_vars

EventInit == GridIdle /\ DayIdle

EventNext == Connect \/ Disconnect \/ Emit \/ Destroy

EventSpec == EventInit /\ [][EventNext]_vars

\* ExtensionBase.addComponent and destroy.  The extension holds the
\* components it was given by their ids; the one whose id is the componentId
\* of comp is comp itself ("" while comp has not registered), any other is
\* a component of which only the registration is followed.

\* The number of addComponent calls before a destroy().
MaxComponents == 2

\* components.forEach(component => component.destroy()), w being the record
\* [comp, orch, bus].
RECURSIVE destroyComponents(_, _)
destroyComponents(w, ids) ==
    IF ids = <<>> THEN w
    ELSE destroyComponents(
             IF Head(ids) = w.comp.componentId
             THEN destroy(w)
             ELSE [w EXCEPT !.orch = unregisterComponent(@, Head(ids))],
             Tail(ids))

\* ExtensionBase.destroy(): the components added with addComponent are
\* destroyed, and the cleanup setupSettingMonitoring added disconnects the
\* monitor.  x is the record [ext, comp, orch, bus].
destroyExtension(x) ==
    LET w == destroyComponents([comp |-> x.comp, orch |-> x.orch,
                                bus |-> x.bus],
                               x.ext.components)
    IN [ext |-> [x.ext EXCEPT !.components = <<>>, !.monitor = FALSE],
        comp |-> w.comp,
        orch |-> w.orch,
        bus |-> w.bus]

\* addComponent(component) with comp or with another component.
AddComponent ==
    \E id \in ComponentIds \cup {comp.componentId} :
        /\ Len(ext.components) < MaxComponents
        /\ ext' = [ext EXCEPT !.components = Append(@, id),
                              !.notified = <<>>,
                              !.op = <<"addComponent", id>>]
        /\ UNCHANGED <<orch, offExtension>>

\* extension.destroy()
DestroyExtension ==
    /\ LET x == destroyExtension([ext |-> Fresh_eo.ext, comp |-> comp,
                                  orch |-> Fresh_eo.orch, bus |-> bus])
       IN /\ ext' = [x.ext EXCEPT !.op = <<"destroy", ext.components>>]
          /\ orch' = [x.orch EXCEPT !.op = <<"destroy">>]
          /\ comp' = x.comp
          /\ bus' = x.bus
    /\ UNCHANGED <<gridVars, dayVars, calcVars, libVars, rx, fx, fmt, grid>>

\* A component of a decorated class as its constructor leaves it, with a
\* timer started and a listener connected to one of its events, on an
\* orchestrator o.
Constructed(o, config) ==
    LET w == registerWithOrchestrator(
                 [comp |-> addTimer(NewComponent),
                  orch |-> o,
                  bus |-> connectListener(NewEventBus, "closed", "onClose")],
                 config)
    IN [w EXCEPT
          !.comp.op = <<"registerWithOrchestrator", config.id>>,
          !.bus.op = <<"connect", "closed", "onClose">>]

\* The component the extension is about to add, among the components that
\* are registered: one of a class that is not decorated, as
\* StatusBarIndicator, or one of a class decorated with the id "popup".
ExtensionWorlds ==
    LET os == {registerAll(cs) : cs \in {l \in ComponentLists : Len(l) <= 1}}
    IN {[comp |-> NewComponent, orch |-> o, bus |-> NewEventBus] : o \in os}
       \cup {Constructed(o, config) :
                 o \in os, config \in {c \in ComponentConfigs :
                                          c.id = "popup"}}

ExtensionInit ==
    /\ GridIdle
    /\ language = "amharic"
    /\ dayIn = <<>>
    /\ dayOut = <<>>
    /\ calcOut = <<>>
    /\ holidayTable = "ok"
    /\ rx = NewStateManager
    /\ fx = NewEffectManager
    /\ fmt = NoFormat
    /\ grid = EmptyGrid
    /\ \E w \in ExtensionWorlds :
          /\ comp = w.comp
          /\ orch = w.orch
          /\ bus = w.bus
    /\ ext \in {[NewExtension EXCEPT !.schema = sc] :
                   sc \in SUBSET DependencyKeys}

ExtensionNext ==
    SetSetting \/ ChangedOutside \/ AddComponent \/ DestroyExtension

ExtensionSpec == ExtensionInit /\ [][ExtensionNext]_vars

-----------------------------------------------------------------------------
(***************************************************************************)
(* CalendarGrid.render (src/components/CalendarGrid.ts): setCell(row, col, *)
(* widget) is the record [row, col, ...] with the header a label is made   *)
(* of (it shows its first three characters) or the cell of data.days a     *)
(* day button or an empty label is made of.                                *)
(***************************************************************************)

\* data.days.forEach from the i-th cell on, row and col as the loop left
\* them; a row has width columns.
RECURSIVE attachDays(_, _, _, _, _)
attachDays(days, i, row, col, width) ==
    IF i > Len(days) THEN <<>>
    ELSE LET r == IF col = width THEN row + 1 ELSE row
             c == IF col = width THEN 0 ELSE col
         IN <<[row |-> r, col |-> c, day |-> days[i]]>>
                \o attachDays(days, i + 1, r, c + 1, width)

\* The day cells attached with rows of six columns.
renderDays_sixColumns(days) == attachDays(days, 1, 1, 0, 6)

\* The day cells render attaches: let row = 1, col = 0 and the loop.
renderDays(days) == attachDays(days, 1, 1, 0, 7)

\* render(data): nothing is done without gridLayout and outer; with them
\* the grid is cleared and the headers and the days are attached.
renderGrid(g, data) ==
    IF ~g.layout THEN g
    ELSE [g EXCEPT
            !.headers = [idx \in 1..Len(data.headers) |->
                            [row |-> 0, col |-> idx - 1,
                             header |-> data.headers[idx]]],
            !.days = renderDays(data.days)]

\* The reactive settings of a CalendarGrid: the name and the GSettings key.
GridSettings ==
    {<<"language", "calendar-language">>,
     <<"useGeezNumerals", "use-geez-numerals">>}

\* initSettings(): the two reactive settings, each of one key.
initSettings(c) ==
    addReactiveSetting(
        addReactiveSetting(c, "language", <<"calendar-language">>),
        "useGeezNumerals", <<"use-geez-numerals">>)

\* initUI(): gridLayout and outer are created.
initUI(g) == [g EXCEPT !.layout = TRUE]

\* refresh(), generate having returned: render(generate()).
refresh(g) == renderGrid(g, generate(Svc, Today))

\* What refresh() does to the grid; what generate throws is rethrown and
\* the grid stays as it was.
Refreshed ==
    IF getHolidaysThrows
    THEN /\ grid' = grid
         /\ lastOp' = <<"refresh.threw">>
    ELSE /\ grid' = refresh(grid)
         /\ lastOp' = <<"refresh">>

\* new CalendarGrid(monthService, settings): initSettings, initUI,
\* initConnections (empty) and initLogic, which is refresh().  When refresh
\* throws so does the constructor: the caller has no grid, and the handlers
\* of the two settings stay connected to the grid that was being built.
ConstructGrid ==
    /\ inst # <<>>
    /\ ~grid.constructed
    /\ comp = NewComponent
    /\ comp' = [initSettings(comp) EXCEPT !.op = <<"constructGrid">>]
    /\ IF getHolidaysThrows
       THEN /\ grid' = initUI(grid)
            /\ lastOp' = <<"constructGrid.threw">>
       ELSE /\ grid' = [refresh(initUI(grid)) EXCEPT !.constructed = TRUE]
            /\ lastOp' = <<"constructGrid">>
    /\ UNCHANGED <<inst, result, ticks>>
    /\ UNCHANGED <<dayVars, calcVars, libVars, rx, fx, fmt, orch, ext, bus>>

\* grid.refresh()
Refresh ==
    /\ grid.constructed
    /\ Refreshed
    /\ UNCHANGED <<inst, result, ticks>>
    /\ UNCHANGED offCalendar

\* GSettings emits 'changed::<key>' for a key of the grid with a new value:
\* the handler of the setting, which destroy() leaves connected, calls the
\* update function, and that emits an event nobody is connected to and
\* calls refresh().
GridSettingChanged ==
    /\ \E setting \in GridSettings :
          /\ \E h \in comp.handlers : h.key = setting[2]
          /\ comp' = [comp EXCEPT
                        !.op = <<"changed", setting[2],
                                 {h.setting : h \in
                                     {g \in comp.handlers :
                                         g.key = setting[2]}}>>]
    /\ Refreshed
    /\ UNCHANGED <<inst, result, ticks>>
    /\ UNCHANGED <<dayVars, calcVars, libVars, rx, fx, fmt, orch, ext, bus>>

\* grid.destroy(): outer and gridLayout are forgotten, what is attached to
\* the layout stays attached, and ComponentBase.destroy() follows.
DestroyGrid ==
    /\ grid.constructed
    /\ grid' = [grid EXCEPT !.layout = FALSE]
    /\ ComponentDestroyed
    /\ lastOp' = <<"destroy">>
    /\ UNCHANGED <<inst, result, ticks>>
    /\ UNCHANGED <<dayVars, calcVars, libVars, rx, fx, fmt, ext>>

CalendarNext ==
    \/ Construct
    \/ Up
    \/ Down
    \/ ConstructGrid
    \/ Refresh
    \/ GridSettingChanged
    \/ DestroyGrid

\* A month grid service and a calendar grid on it, in a run in which the
\* holiday lookup may throw.
CalendarSpec == GridFailInit /\ [][CalendarNext]_vars

\* C28: render attaches the cell at list index i (from 0) of generate().days
\* at row 1 + floor(i / 7) and column i mod 7, so that every day cell is in
\* column (weekday - weekStart + 7) mod 7, under the header that names its
\* weekday, in every month and for every weekStart in 0..6.
C28_DayCellsUnderTheirHeader ==
    (/\ lastOp \in {<<"constructGrid">>, <<"refresh">>}
     /\ grid.layout
     /\ Svc.weekStart \in 0..6)
    => LET days == generate(Svc, Today).days
       IN /\ Len(grid.days) = Len(days)
          /\ \A k \in DOMAIN grid.days :
                 LET cell == grid.days[k]
                 IN /\ cell.day = days[k]
                    /\ cell.row = 1 + ((k - 1) \div 7)
                    /\ cell.col = (k - 1) % 7
                    /\ cell.day # NullCell
                       => /\ cell.col
                               = (cell.day.weekday - Svc.weekStart + 7) % 7
                          /\ \E h \in DOMAIN grid.headers :
                                 /\ grid.headers[h].col = cell.col
                                 /\ grid.headers[h].row = 0
                                 /\ grid.headers[h].header
                                        = cell.day.weekdayName

\* A month has been laid out whose week does not start on Sunday and whose
\* first row starts with empty cells.
C28_Witness ==
    /\ lastOp \in {<<"constructGrid">>, <<"refresh">>}
    /\ grid.constructed
    /\ grid.layout
    /\ Svc.weekStart \in 2..6
    /\ grid.days # <<>>
    /\ grid.days[1].day = NullCell
    /\ grid.days[Len(grid.days)].row >= 5

=============================================================================
